---------------------------- MODULE Spec2Model ----------------------------
(***************************************************************************)
(* A model of the CrystalRestaurants enrichment pipeline:                  *)
(*   scripts/scrape_crystal.py  initialise_database, upsert_locations,     *)
(*                              normalise_address, geocode_records         *)
(*   scripts/generate_map.py    normalize_text, record_quality,            *)
(*                              dedupe_key, deduplicate_records,           *)
(*                              load_locations, build_popup                *)
(*   scripts/generate_google_list.py  load_locations, build_row_html       *)
(*   scripts/scrape_menus.py    MenuScraper, ensure_menu_columns,          *)
(*                              scrape_menus                               *)
(*                                                                         *)
(* Text is a sequence of one-character strings, so that trimming, case     *)
(* folding, separator replacement and whitespace collapsing are computed   *)
(* and not assumed.  Python's None is the value None for text, the empty   *)
(* set for an optional number, and a record of kind "none" for an optional *)
(* object.                                                                 *)
(***************************************************************************)
EXTENDS Integers, Sequences, FiniteSets, TLC

VARIABLES
    \* ---- the SQLite store (scrape_crystal.py, scrape_menus.py)
    db,          \* rows as the open connection sees them (uncommitted included)
    disk,        \* rows as committed: what survives the process
    clock,       \* datetime.now, a counter that a started run advances
    runs,        \* runs of geocode_records or scrape_menus started so far
    \* ---- geocode_records
    pc,          \* position of the running function
    force,       \* its force argument
    geocoders,   \* its provider chain: a sequence of provider names
    delay_given, \* its delay_seconds argument, in tenths of a second
    delay,       \* the delay it sleeps, in tenths of a second
    idx,         \* index of the row being processed
    gi,          \* index of the next provider to try for this row
    location,    \* result kept for this row
    provider_used,
    search_text, \* query built for this row
    calls,       \* provider attempts made for this row: <<name, outcome>>
    sleeps,      \* time.sleep calls made for this row
    failures,    \* the failures list of the run
    updated,     \* rows this run has executed an UPDATE for
    \* ---- deduplicate_records
    records,     \* its input list
    unique,      \* its insertion-ordered dict: a sequence of <<key, record>>
    pos,         \* index of the next record to read
    output,      \* its result
    \* ---- scrape_menus
    mpc,         \* position of the running function
    mforce,      \* its force argument
    selenium,    \* scraper.use_selenium with a driver
    mrows,       \* the ids its query returned, in order
    midx,        \* index into mrows of the row being processed
    menu_data,   \* the document found for this row
    source,      \* its source
    attempts,    \* extractions tried for this row: <<source, outcome>>
    mexit,       \* how its last run ended: "return", "error", "interrupt"
    \* ---- upsert_locations
    incoming,    \* its records argument
    upos,        \* index of the next record to store; 0 outside a call
    ingested,    \* the (brand, branch, address) tuples stored so far
    \* ---- MenuScraper.extract_menu_generic
    page,        \* what BeautifulSoup finds in its html argument
    extracted,   \* what it returns
    \* ---- build_popup, build_row_html
    shown,       \* the menu_data text of the record rendered
    popup,       \* what build_popup returns
    row_html,    \* what build_row_html returns
    \* ---- build_geocoders
    names,       \* its names argument
    google_api_key,
    geopy,       \* geopy imported: Nominatim is not None
    bi,          \* index of the next name; 0 once it has returned
    built,       \* its geocoders list
    \* ---- normalise_address
    given_address, \* its address argument
    cleaned,     \* what it returns
    \* ---- deduplicate_records called on its own result
    again,       \* whether that call was made, and what it returned
    \* ---- MenuScraper.__init__, scrape_website, fetch_html
    fpc,         \* "new", "ready", "done"; "idle" outside
    use_selenium_arg,   \* the use_selenium argument of MenuScraper
    selenium_available, \* SELENIUM_AVAILABLE: the selenium import succeeded
    scraper,     \* self.use_selenium and whether self.driver is set
    furl,        \* the url argument of scrape_website
    fetches,     \* the fetches made: <<how, outcome>>
    fetched_html, \* the html scrape_website goes on with
    \* ---- the schema: initialise_database, ensure_menu_columns, load_locations
    columns,     \* the columns of the locations table; {} without the table
    steps_done,  \* which of "initialise" and "menu" have run
    loaded_map,  \* what load_locations of generate_map returns
    loaded_list  \* what load_locations of generate_google_list returns

geoVars == <<pc, force, geocoders, delay_given, delay, idx, gi, location, provider_used,
             search_text, calls, sleeps, failures, updated>>
dedupVars == <<records, unique, pos, output>>
menuVars == <<mpc, mforce, selenium, mrows, midx, menu_data, source, attempts,
              mexit>>
storeVars == <<db, disk, clock, runs>>
upsertVars == <<incoming, upos, ingested>>
extractVars == <<page, extracted>>
renderVars == <<shown, popup, row_html>>
buildVars == <<names, google_api_key, geopy, bi, built>>
addressVars == <<given_address, cleaned>>
fetchVars == <<fpc, use_selenium_arg, selenium_available, scraper, furl, fetches,
               fetched_html>>
schemaVars == <<columns, steps_done, loaded_map, loaded_list>>
restVars == <<addressVars, again, fetchVars, schemaVars>>
otherVars == <<upsertVars, extractVars, renderVars, buildVars, restVars>>
vars == <<storeVars, geoVars, dedupVars, menuVars, otherVars>>

-----------------------------------------------------------------------------
(* Text *)

None == <<"None">>

Truthy(s) == s # None /\ s # <<>>

\* Python's `a or b` on optional text.
Either(a, b) == IF Truthy(a) THEN a ELSE b

Whitespace == {" ", "\t"}

UpperCase == {"A", "G", "K", "T", "X"}

LowerChar(c) ==
    CASE c = "A" -> "a"
      [] c = "G" -> "g"
      [] c = "K" -> "k"
      [] c = "T" -> "t"
      [] c = "X" -> "x"
      [] OTHER -> c

Lower(s) == [i \in 1..Len(s) |-> LowerChar(s[i])]

RECURSIVE LStrip(_, _)
LStrip(s, chars) ==
    IF s # <<>> /\ Head(s) \in chars THEN LStrip(Tail(s), chars) ELSE s

RECURSIVE RStrip(_, _)
RStrip(s, chars) ==
    IF s # <<>> /\ s[Len(s)] \in chars
    THEN RStrip(SubSeq(s, 1, Len(s) - 1), chars)
    ELSE s

\* str.strip(chars); str.strip() is Strip(s, Whitespace).
Strip(s, chars) == RStrip(LStrip(s, chars), chars)

StartsWith(s, p) == Len(s) >= Len(p) /\ SubSeq(s, 1, Len(p)) = p

Drop(s, n) == SubSeq(s, n + 1, Len(s))

\* `p in s` for strings.
Contains(s, p) ==
    \E i \in 0..(Len(s) - Len(p)) : SubSeq(s, i + 1, i + Len(p)) = p

\* str.replace(old, new): left to right, non-overlapping.
RECURSIVE Replace(_, _, _)
Replace(s, old, new) ==
    IF s = <<>> THEN <<>>
    ELSE IF StartsWith(s, old) THEN new \o Replace(Drop(s, Len(old)), old, new)
    ELSE <<Head(s)>> \o Replace(Tail(s), old, new)

\* re.sub(r"\s+", " ", s)
RECURSIVE CollapseWhitespace(_)
CollapseWhitespace(s) ==
    IF s = <<>> THEN <<>>
    ELSE IF Head(s) \in Whitespace
         THEN <<" ">> \o CollapseWhitespace(LStrip(s, Whitespace))
         ELSE <<Head(s)>> \o CollapseWhitespace(Tail(s))

\* " ".join(s.split()): runs of whitespace become one space, none at the ends.
SplitJoin(s) == CollapseWhitespace(Strip(s, Whitespace))

\* ", ".join(parts)
RECURSIVE Join(_)
Join(parts) ==
    IF parts = <<>> THEN <<>>
    ELSE IF Len(parts) = 1 THEN parts[1]
    ELSE parts[1] \o <<",", " ">> \o Join(Tail(parts))

-----------------------------------------------------------------------------
(* scrape_crystal.py: normalise_address *)

LabelAdres == <<"a", "d", "r", "e", "s">>
LabelAddress == <<"a", "d", "d", "r", "e", "s", "s">>

\* What follows a label: \s*[:=]\s* ; None when it does not match.
AfterLabel(rest) ==
    LET r == LStrip(rest, Whitespace)
    IN  IF r # <<>> /\ Head(r) \in {":", "="}
        THEN LStrip(Tail(r), Whitespace)
        ELSE None

\* re.sub(r"^(adres|address)\s*[:=]\s*", "", s, flags=re.IGNORECASE)
StripLabel(s) ==
    LET try(label) ==
            IF StartsWith(Lower(s), label) THEN AfterLabel(Drop(s, Len(label)))
            ELSE None
    IN  IF try(LabelAdres) # None THEN try(LabelAdres)
        ELSE IF try(LabelAddress) # None THEN try(LabelAddress)
        ELSE s

normalise_address(address) ==
    IF ~Truthy(address) THEN None
    ELSE LET c1 == Strip(address, Whitespace)
             c2 == StripLabel(c1)
             c3 == Replace(c2, <<" ", "/", " ">>, <<",", " ">>)
             c4 == Replace(c3, <<" ", "-", " ">>, <<",", " ">>)
             c5 == CollapseWhitespace(c4)
             c6 == Strip(c5, {",", ";", " "})
         IN  IF c6 = <<>> THEN None ELSE c6

\* The value of cleaned before the call.
NotCalled == <<"not called">>

MaxAddressLen == 3

\* Characters of an address: whitespace, the separators, punctuation, a letter.
AddressChars == {" ", "\t", ",", ";", ".", "-", "/", "a"}

\* Labels a listing puts before an address.
AddressLabels ==
    {<<>>, <<"A", "d", "r", "e", "s", ":", " ">>,
     <<"a", "d", "d", "r", "e", "s", "s", " ", "=">>}

\* The arguments of normalise_address: None, or a label and up to
\* MaxAddressLen characters.
AddressInputs ==
    {None} \cup {l \o b : l \in AddressLabels,
                          b \in UNION {[1..n -> AddressChars] : n \in 0..MaxAddressLen}}

\* cleaned_address = normalise_address(address)
NormaliseAddress ==
    /\ cleaned = NotCalled
    /\ cleaned' = normalise_address(given_address)
    /\ UNCHANGED <<given_address, storeVars, geoVars, dedupVars, menuVars,
                   upsertVars, extractVars, renderVars, buildVars, again,
                   fetchVars, schemaVars>>

-----------------------------------------------------------------------------
(* The store: the locations table (scrape_crystal.py: initialise_database,  *)
(* scrape_menus.py: ensure_menu_columns)                                     *)

NumRows == 4

\* Calls of upsert_locations, geocode_records or scrape_menus in a behaviour.
MaxRuns == 2

Ids == 1..NumRows

\* The records parse_locations hands to upsert_locations: text stripped,
\* branch_text or None, no coordinates.
Listing ==
    << [brand |-> <<"K">>, branch |-> None,
        address |-> <<"a", " ", "-", " ", "b">>,
        website |-> <<"h", "t", "t", "p", ":", "/", "/", "w">>],
       [brand |-> <<"G">>, branch |-> <<"X">>,
        address |-> <<",", " ", ";">>,
        website |-> <<"m", "a", "i", "l", "t", "o", ":", "x">>],
       [brand |-> <<"K">>, branch |-> <<"k">>,
        address |-> <<"T", "u", "r", "k", "e", "y">>,
        website |-> None],
       [brand |-> <<"G">>, branch |-> None, address |-> None,
        website |-> None] >>

\* The i-th venue of the listing; past the four above, the same venues under
\* further branch names, so that no two share (brand, branch, address).
VenueAt(i) ==
    LET v == Listing[((i - 1) % Len(Listing)) + 1]
        k == (i - 1) \div Len(Listing)
    IN  IF k = 0 THEN v
        ELSE [v EXCEPT !.branch = (IF v.branch = None THEN <<>> ELSE v.branch)
                                      \o [j \in 1..k |-> "b"]]

\* json.dumps of a string: quoted, with the quote and the backslash escaped.
RECURSIVE JsonEscape(_)
JsonEscape(text) ==
    IF text = <<>> THEN <<>>
    ELSE (IF Head(text) \in {"\"", "\\"} THEN <<"\\", Head(text)>>
          ELSE <<Head(text)>>) \o JsonEscape(Tail(text))

JsonNull == <<"n", "u", "l", "l">>

\* json.dumps of str | None
JsonText(value) ==
    IF value = None THEN JsonNull
    ELSE <<"\"">> \o JsonEscape(value) \o <<"\"">>

\* UniqueKey writing strings as they are, without quotes.
UniqueKeyUnquoted(v) ==
    <<"[">> \o (IF v.brand = None THEN JsonNull ELSE v.brand) \o <<",", " ">>
            \o (IF v.branch = None THEN JsonNull ELSE v.branch) \o <<",", " ">>
            \o (IF v.address = None THEN JsonNull ELSE v.address) \o <<"]">>

\* unique_key = json.dumps([brand, branch, address], ensure_ascii=False)
UniqueKey(v) ==
    <<"[">> \o JsonText(v.brand) \o <<",", " ">>
            \o JsonText(v.branch) \o <<",", " ">>
            \o JsonText(v.address) \o <<"]">>

\* payload = json.dumps(record): the fields of the record the model holds.
Payload(v) ==
    <<"{">> \o JsonText(v.brand) \o <<",", " ">>
            \o JsonText(v.branch) \o <<",", " ">>
            \o JsonText(v.address) \o <<",", " ">>
            \o JsonText(v.website) \o <<"}">>

\* A row as upsert_locations inserts it; the columns added by ensure_column and
\* ensure_menu_columns start NULL.
NewRow(v, now) ==
    [unique_key |-> UniqueKey(v),
     brand |-> v.brand, branch |-> v.branch, address |-> v.address,
     website |-> v.website, raw_payload |-> Payload(v),
     latitude |-> {}, longitude |-> {}, geocode_provider |-> None,
     resolved_address |-> None, resolved_phone |-> None,
     resolved_website |-> None, geocode_place_id |-> None,
     geocode_maps_url |-> None, last_updated |-> now,
     menu_data |-> None, menu_source |-> None, menu_last_scraped |-> {}]

HasCoords(row) == row.latitude # {} /\ row.longitude # {}

-----------------------------------------------------------------------------
(* scrape_crystal.py: upsert_locations *)

MaxIncoming == 2

\* Overwritten as INSERT OR REPLACE would do it: the row is the new record's.
OverwrittenReplacing(row, v, now) == NewRow(v, now)

\* ON CONFLICT(unique_key) DO UPDATE SET ...: the listing's columns (website
\* stands for phone and extra_info too), raw_payload and last_updated are
\* overwritten, the row keeps its id and its other columns.
Overwritten(row, v, now) ==
    [row EXCEPT !.brand = v.brand, !.branch = v.branch, !.address = v.address,
                !.website = v.website, !.raw_payload = Payload(v),
                !.last_updated = now]

\* The rows of the table that hold the key.
Conflicts(table, key) == {i \in DOMAIN table : table[i].unique_key = key}

\* INSERT INTO locations ... ON CONFLICT(unique_key) DO UPDATE
Upserted(table, v, now) ==
    LET hit == Conflicts(table, UniqueKey(v))
    IN  IF hit = {} THEN Append(table, NewRow(v, now))
        ELSE [i \in DOMAIN table |->
                 IF i \in hit THEN Overwritten(table[i], v, now) ELSE table[i]]

\* upsert_locations(connection, records) is called; now is read once.
UpsertStart(recs) ==
    /\ upos = 0
    /\ runs < MaxRuns
    /\ runs' = runs + 1
    /\ clock' = clock + 1
    /\ incoming' = recs
    /\ upos' = 1
    /\ UNCHANGED <<db, disk, ingested, geoVars, dedupVars, menuVars,
                   extractVars, renderVars, buildVars,
                   restVars>>

\* One iteration of `for record in records`.
UpsertRecord ==
    /\ upos > 0
    /\ upos <= Len(incoming)
    /\ db' = Upserted(db, incoming[upos], clock)
    /\ ingested' = ingested \cup
           {<<incoming[upos].brand, incoming[upos].branch, incoming[upos].address>>}
    /\ upos' = upos + 1
    /\ UNCHANGED <<disk, clock, runs, incoming, geoVars, dedupVars, menuVars,
                   extractVars, renderVars, buildVars,
                   restVars>>

\* connection.commit(); return stored
UpsertCommit ==
    /\ upos > Len(incoming)
    /\ disk' = db
    /\ upos' = 0
    /\ incoming' = <<>>
    /\ UNCHANGED <<db, clock, runs, ingested, geoVars, dedupVars,
                   menuVars, extractVars, renderVars, buildVars,
                   restVars>>

\* The records parse_locations can hand over: one brand, with a branch named
\* "null" or no branch, with or without an address.
IncomingRecords ==
    [brand : {<<"K">>}, branch : {None, JsonNull},
     address : {None, <<"a">>}, website : {<<"w">>}]

-----------------------------------------------------------------------------
(* scrape_crystal.py: geocode_records *)

MaxChain == 2

ProviderNames == {"nominatim", "google"}

\* The chains build_geocoders can return: a name requested twice is in the
\* chain twice.
Chains == UNION {[1..n -> ProviderNames] : n \in 0..MaxChain}

\* --geocode-delay, in tenths of a second.
DelayArgs == {0 - 10, 15}

NoResult == [kind |-> "none"]
Raised == [kind |-> "raise"]

NoRaw ==
    [resolved_address |-> None, resolved_phone |-> None,
     resolved_website |-> None, place_id |-> None, maps_url |-> None]

\* What a provider can hand back: a geopy Location (raw holds none of the
\* resolved_* keys) or the SimpleLocation of geocode_with_google_places.
ResultsOf(name) ==
    IF name = "google"
    THEN {[kind |-> "location", latitude |-> 42, longitude |-> 28,
           address |-> <<"g">>,
           raw |-> [resolved_address |-> <<"g">>, resolved_phone |-> <<"5">>,
                    resolved_website |-> None, place_id |-> <<"p">>,
                    maps_url |-> <<"m">>]]}
    ELSE {[kind |-> "location", latitude |-> 41, longitude |-> 29,
           address |-> <<"n">>, raw |-> NoRaw]}

\* A call of geocode_func: it raises, returns None, or returns a location.
Outcomes(name) == {Raised, NoResult} \cup ResultsOf(name)

\* try: result = geocode_func(...) except Exception: result = None
Caught(outcome) == IF outcome = Raised THEN NoResult ELSE outcome

\* `if result:`
Found(result) == result # NoResult

Max(a, b) == IF a >= b THEN a ELSE b

MinDelay == 5

NominatimDelay == 10

\* EffectiveDelay without its floors: the configured delay as given.
EffectiveDelayUnclamped(delay_seconds, chain) == delay_seconds

\* EffectiveDelay without the floor of the nominatim provider.
EffectiveDelayWithoutNominatim(delay_seconds, chain) ==
    Max(delay_seconds, MinDelay)

\* delay = max(delay_seconds, 0.5), raised to 1.0 for a chain with nominatim.
EffectiveDelay(delay_seconds, chain) ==
    LET d == Max(delay_seconds, MinDelay)
    IN  IF (\E i \in DOMAIN chain : chain[i] = "nominatim") /\ d < NominatimDelay
        THEN NominatimDelay
        ELSE d

\* `if delay > 0: time.sleep(delay)`: the sleeps one attempt adds.
SleepAfterAttempt(d) == IF d > 0 THEN 1 ELSE 0

\* ProviderAt walking the chain from its end.
ProviderAtReversed(chain, i) == chain[Len(chain) - i + 1]

\* The provider the inner loop calls at its i-th iteration.
ProviderAt(chain, i) == chain[i]

Genel == <<"g", "e", "n", "e", "l">>
Turkiye == <<"T", "ü", "r", "k", "i", "y", "e">>
Turkey == <<"T", "u", "r", "k", "e", "y">>

\* dict.fromkeys(parts): first occurrences, in order.
RECURSIVE FirstOccurrences(_)
FirstOccurrences(parts) ==
    IF parts = <<>> THEN <<>>
    ELSE LET init == FirstOccurrences(SubSeq(parts, 1, Len(parts) - 1))
             last == parts[Len(parts)]
         IN  IF \E i \in DOMAIN init : init[i] = last THEN init
             ELSE Append(init, last)

\* The query of one row; <<>> when nothing is left to search for.
SearchText(brand, branch, cleaned_address) ==
    LET withBranch ==
            IF Truthy(branch) /\ Lower(branch) \notin {Genel, Lower(brand)}
            THEN <<brand, branch>> ELSE <<brand>>
        search_parts == Append(withBranch, cleaned_address)
        kept == SelectSeq(search_parts,
                    LAMBDA p : Truthy(p) /\ Strip(p, Whitespace) # <<>>)
        stripped == [i \in DOMAIN kept |-> Strip(kept[i], Whitespace)]
        text == Join(FirstOccurrences(stripped))
    IN  IF text = <<>> THEN <<>>
        ELSE IF ~Contains(text, Turkiye) /\ ~Contains(text, Turkey)
             THEN text \o <<",", " ">> \o Turkiye
             ELSE text

\* Attempted without the skip of rows that already hold coordinates.
AttemptedIgnoringCoords(row, f) ==
    /\ Truthy(row.address)
    /\ normalise_address(row.address) # None
    /\ SearchText(row.brand, row.branch, normalise_address(row.address)) # <<>>

\* The filters at the head of the loop body: TRUE when the row is attempted.
Attempted(row, f) ==
    /\ Truthy(row.address)
    /\ ~(HasCoords(row) /\ ~f)
    /\ normalise_address(row.address) # None
    /\ SearchText(row.brand, row.branch, normalise_address(row.address)) # <<>>

\* Resolved writing the latitude alone.
ResolvedLatitudeOnly(row, loc, provider, now) ==
    [row EXCEPT !.latitude = {loc.latitude},
                !.geocode_provider = <<provider>>,
                !.last_updated = now]

\* The UPDATE of a resolved row.
Resolved(row, loc, provider, now) ==
    [row EXCEPT
        !.latitude = {loc.latitude},
        !.longitude = {loc.longitude},
        !.geocode_provider = <<provider>>,
        !.resolved_address = Either(loc.raw.resolved_address, loc.address),
        !.resolved_phone = loc.raw.resolved_phone,
        !.resolved_website = loc.raw.resolved_website,
        !.geocode_place_id = loc.raw.place_id,
        !.geocode_maps_url = loc.raw.maps_url,
        !.last_updated = now]

\* Unresolved writing NULL coordinates for the failed venue.
UnresolvedCleared(row) == [row EXCEPT !.latitude = {}, !.longitude = {}]

\* What the row of a venue whose providers all failed becomes: nothing is
\* executed for it.
Unresolved(row) == row

GeoRunning == pc \in {"row", "try", "finish"}

\* geocode_records(connection, delay_seconds, force, geocoders) is called.
GeoStart(f, chain, d) ==
    /\ pc = "idle"
    /\ runs < MaxRuns
    /\ runs' = runs + 1
    /\ clock' = clock + 1
    /\ IF chain = <<>>
       THEN /\ UNCHANGED <<pc, force, geocoders, delay_given, delay, idx,
                           failures, updated>>
       ELSE /\ pc' = "row"
            /\ force' = f
            /\ geocoders' = chain
            /\ delay_given' = d
            /\ delay' = EffectiveDelay(d, chain)
            /\ idx' = 1
            /\ failures' = <<>>
            /\ updated' = {}
    /\ UNCHANGED <<db, disk, gi, location, provider_used, search_text, calls,
                   sleeps, dedupVars, menuVars>>
    /\ UNCHANGED otherVars

\* The head of one iteration of `for idx, row in enumerate(rows)`.
GeoRow ==
    /\ pc = "row"
    /\ idx <= NumRows
    /\ IF Attempted(db[idx], force)
       THEN /\ pc' = "try"
            /\ search_text' = SearchText(db[idx].brand, db[idx].branch,
                                         normalise_address(db[idx].address))
            /\ gi' = 1
            /\ location' = NoResult
            /\ provider_used' = None
            /\ calls' = <<>>
            /\ sleeps' = 0
            /\ UNCHANGED idx
       ELSE /\ idx' = idx + 1
            /\ UNCHANGED <<pc, search_text, gi, location, provider_used,
                           calls, sleeps>>
    /\ UNCHANGED <<db, disk, force, geocoders, delay, failures, updated,
                   clock, runs, dedupVars, menuVars>>
    /\ UNCHANGED <<delay_given, otherVars>>

\* One iteration of `for name, geocode_func in geocoders`: the call, then
\* the sleep.
GeoTry(outcome) ==
    /\ pc = "try"
    /\ gi <= Len(geocoders)
    /\ LET name == ProviderAt(geocoders, gi)
           result == Caught(outcome)
       IN  /\ outcome \in Outcomes(name)
           /\ calls' = Append(calls, <<name, outcome.kind>>)
           /\ sleeps' = sleeps + SleepAfterAttempt(delay)
           /\ IF Found(result)
              THEN /\ provider_used' = <<name>>
                   /\ location' = result
                   /\ pc' = "finish"
                   /\ UNCHANGED gi
              ELSE /\ gi' = gi + 1
                   /\ pc' = IF gi + 1 > Len(geocoders) THEN "finish" ELSE "try"
                   /\ UNCHANGED <<provider_used, location>>
    /\ UNCHANGED <<db, disk, force, geocoders, delay, idx, search_text,
                   failures, updated, clock, runs, dedupVars, menuVars>>
    /\ UNCHANGED <<delay_given, otherVars>>

\* `if not location: failures.append(search_text); continue`
GeoFail ==
    /\ pc = "finish"
    /\ ~Found(location)
    /\ failures' = Append(failures, search_text)
    /\ db' = [db EXCEPT ![idx] = Unresolved(db[idx])]
    /\ idx' = idx + 1
    /\ pc' = "row"
    /\ UNCHANGED <<disk, force, geocoders, delay, gi, location, provider_used,
                   search_text, calls, sleeps, updated, clock, runs,
                   dedupVars, menuVars>>
    /\ UNCHANGED <<delay_given, otherVars>>

\* connection.execute("UPDATE locations SET ... WHERE id=?"); updated += 1
GeoStore ==
    /\ pc = "finish"
    /\ Found(location)
    /\ db' = [db EXCEPT ![idx] = Resolved(db[idx], location, provider_used[1], clock)]
    /\ updated' = updated \cup {idx}
    /\ idx' = idx + 1
    /\ pc' = "row"
    /\ UNCHANGED <<disk, force, geocoders, delay, gi, location, provider_used,
                   search_text, calls, sleeps, failures, clock, runs,
                   dedupVars, menuVars>>
    /\ UNCHANGED <<delay_given, otherVars>>

\* What connection.commit() makes durable.
Committed(conn, durable) == conn

\* geocode_records has returned: its arguments and locals are gone.
GeoReturned ==
    /\ pc' = "idle"
    /\ force' = FALSE
    /\ geocoders' = <<>>
    /\ delay_given' = 0
    /\ delay' = 0
    /\ idx' = 0
    /\ gi' = 0
    /\ location' = NoResult
    /\ provider_used' = None
    /\ search_text' = <<>>
    /\ calls' = <<>>
    /\ sleeps' = 0
    /\ failures' = <<>>
    /\ updated' = {}

\* The loop is over: connection.commit() and return.
GeoCommit ==
    /\ pc = "row"
    /\ idx > NumRows
    /\ disk' = Committed(db, disk)
    /\ GeoReturned
    /\ UNCHANGED <<db, clock, runs, dedupVars, menuVars, otherVars>>

\* except KeyboardInterrupt: connection.commit()
GeoInterrupt ==
    /\ GeoRunning
    /\ disk' = Committed(db, disk)
    /\ GeoReturned
    /\ UNCHANGED <<db, clock, runs, dedupVars, menuVars, otherVars>>

-----------------------------------------------------------------------------
(* generate_map.py: normalize_text, record_quality, dedupe_key,             *)
(* deduplicate_records                                                       *)

\* " ".join(value.strip().lower().split()), "" for None
normalize_text(value) ==
    IF ~Truthy(value) THEN <<>> ELSE SplitJoin(Lower(Strip(value, Whitespace)))

Google == <<"google">>

\* record_quality with the weight of the map URL left out.
record_quality_without_maps(record) ==
      (IF Truthy(record.resolved_address) THEN 4 ELSE 0)
    + (IF Truthy(record.resolved_phone) THEN 3 ELSE 0)
    + (IF Truthy(record.resolved_website) THEN 2 ELSE 0)
    + (IF Truthy(record.extra_info) THEN 1 ELSE 0)
    + (IF Lower(Either(record.geocode_provider, <<>>)) = Google THEN 1 ELSE 0)

\* The score, in halves: 5.0 is 10, 0.5 is 1.
record_quality(record) ==
      (IF Truthy(record.maps_url) THEN 10 ELSE 0)
    + (IF Truthy(record.resolved_address) THEN 4 ELSE 0)
    + (IF Truthy(record.resolved_phone) THEN 3 ELSE 0)
    + (IF Truthy(record.resolved_website) THEN 2 ELSE 0)
    + (IF Truthy(record.extra_info) THEN 1 ELSE 0)
    + (IF Lower(Either(record.geocode_provider, <<>>)) = Google THEN 1 ELSE 0)

\* round(x, 6) of a coordinate given in units of 1e-7 degree, in units of
\* 1e-6 degree; a tie goes to the even neighbour.
Round6(x) ==
    LET q == x \div 10
        r == x % 10
    IN  IF r < 5 THEN q
        ELSE IF r > 5 THEN q + 1
        ELSE IF q % 2 = 0 THEN q ELSE q + 1

\* (round(lat, 6), round(lon, 6)) or None, as an optional value.
CoordKey(record) ==
    IF record.latitude # {} /\ record.longitude # {}
    THEN {<<Round6(CHOOSE v \in record.latitude : TRUE),
            Round6(CHOOSE v \in record.longitude : TRUE)>>}
    ELSE {}

\* dedupe_key without its branch tier.
dedupe_key_without_branch(record) ==
    LET brand_key == normalize_text(record.brand)
        addr_key == normalize_text(Either(record.resolved_address, record.address))
        phone_key == normalize_text(Either(record.resolved_phone, record.phone))
        coord_key == CoordKey(record)
    IN  IF coord_key # {} /\ addr_key # <<>>
        THEN <<"coord_addr", brand_key, coord_key, addr_key>>
        ELSE IF coord_key # {}
        THEN <<"coord", brand_key, coord_key, phone_key>>
        ELSE <<"fallback", brand_key, addr_key, phone_key>>

\* dedupe_key keyed on brand and rounded coordinates alone when both
\* coordinates are present and there is no branch.
dedupe_key_coords_only(record) ==
    LET brand_key == normalize_text(record.brand)
        branch_key == normalize_text(record.branch)
        addr_key == normalize_text(Either(record.resolved_address, record.address))
        phone_key == normalize_text(Either(record.resolved_phone, record.phone))
        coord_key == CoordKey(record)
    IN  IF branch_key # <<>>
        THEN <<"branch", brand_key, branch_key, coord_key, addr_key>>
        ELSE IF coord_key # {}
        THEN <<"coord", brand_key, coord_key>>
        ELSE <<"fallback", brand_key, addr_key, phone_key>>

dedupe_key(record) ==
    LET brand_key == normalize_text(record.brand)
        branch_key == normalize_text(record.branch)
        addr_key == normalize_text(Either(record.resolved_address, record.address))
        phone_key == normalize_text(Either(record.resolved_phone, record.phone))
        coord_key == CoordKey(record)
    IN  IF branch_key # <<>>
        THEN <<"branch", brand_key, branch_key, coord_key, addr_key>>
        ELSE IF coord_key # {} /\ addr_key # <<>>
        THEN <<"coord_addr", brand_key, coord_key, addr_key>>
        ELSE IF coord_key # {}
        THEN <<"coord", brand_key, coord_key, phone_key>>
        ELSE <<"fallback", brand_key, addr_key, phone_key>>

\* unique.get(key): the index of the key's entry, 0 when there is none.
Lookup(u, key) ==
    IF \E i \in DOMAIN u : u[i].key = key
    THEN CHOOSE i \in DOMAIN u : u[i].key = key
    ELSE 0

\* The loop body replacing the kept record on an equal score too.
UpsertOnTie(u, recs, p) ==
    LET key == dedupe_key(recs[p])
        i == Lookup(u, key)
    IN  IF i = 0 THEN Append(u, [key |-> key, at |-> p])
        ELSE IF record_quality(recs[p]) >= record_quality(recs[u[i].at])
        THEN [u EXCEPT ![i].at = p]
        ELSE u

\* The body of `for record in records`: unique[key] = record for a new key
\* or a strictly better record.  An entry holds the position of its record in
\* the input, which stands for the identity of the dict object; assigning to
\* an existing key keeps the key's place in the dict.
Upsert(u, recs, p) ==
    LET key == dedupe_key(recs[p])
        i == Lookup(u, key)
    IN  IF i = 0 THEN Append(u, [key |-> key, at |-> p])
        ELSE IF record_quality(recs[p]) > record_quality(recs[u[i].at])
        THEN [u EXCEPT ![i].at = p]
        ELSE u

\* Values listing the dict from its last key to its first.
ValuesReversed(u, recs) ==
    [i \in DOMAIN u |-> recs[u[Len(u) + 1 - i].at]]

\* list(unique.values())
Values(u, recs) == [i \in DOMAIN u |-> recs[u[i].at]]

DedupStep ==
    /\ pos \in 1..Len(records)
    /\ unique' = Upsert(unique, records, pos)
    /\ pos' = pos + 1
    /\ UNCHANGED <<records, output, storeVars, geoVars, menuVars>>
    /\ UNCHANGED otherVars

DedupReturn ==
    /\ pos = Len(records) + 1
    /\ output' = Values(unique, records)
    /\ pos' = 0
    /\ UNCHANGED <<records, unique, storeVars, geoVars, menuVars>>
    /\ UNCHANGED otherVars

DedupDone == pos = 0

\* deduplicate_records as a function of its argument: the loop, then
\* list(unique.values()).
RECURSIVE UniqueAfter(_, _)
UniqueAfter(recs, n) ==
    IF n = 0 THEN <<>> ELSE Upsert(UniqueAfter(recs, n - 1), recs, n)

deduplicate_records(recs) == Values(UniqueAfter(recs, Len(recs)), recs)

NotRerun == [done |-> FALSE, out |-> <<>>]

\* deduplicate_records is called again, on what it returned.
DedupRerun ==
    /\ DedupDone
    /\ ~again.done
    /\ again' = [done |-> TRUE, out |-> deduplicate_records(output)]
    /\ UNCHANGED <<dedupVars, storeVars, geoVars, menuVars, upsertVars,
                   extractVars, renderVars, buildVars, addressVars,
                   fetchVars, schemaVars>>

\* ---- the inputs

MaxRecords == 3

Rec(brand, branch, address, phone, coords, res_address, res_phone, res_website, extra_info, maps_url, provider) ==
    [brand |-> brand, branch |-> branch, address |-> address, phone |-> phone,
     latitude |-> IF coords = <<>> THEN {} ELSE {coords[1]},
     longitude |-> IF coords = <<>> THEN {} ELSE {coords[2]},
     resolved_address |-> res_address, resolved_phone |-> res_phone,
     resolved_website |-> res_website, extra_info |-> extra_info,
     maps_url |-> maps_url,
     geocode_provider |-> provider]

\* Coordinates in units of 1e-7 degree: 14 and 6 round to 1e-6, 24 to 2e-6.
CoordChoices == {<<>>, <<14, 14>>, <<6, 14>>, <<24, 14>>}

\* Records that differ in what dedupe_key reads.
KeyRecords ==
    {Rec(brand, branch, address, phone, coords, resolved_address, None, None,
         None, None, None) :
        brand \in {<<"K">>, <<"k">>, <<"G">>},
        branch \in {None, <<>>, <<"X">>},
        address \in {None, <<"a", " ", "b">>, <<"A", " ", " ", "b">>},
        phone \in {None, <<"5">>},
        coords \in CoordChoices,
        resolved_address \in {None, <<"c">>}}

\* Records of one dedup key that differ in what record_quality reads.
QualityRecords ==
    {Rec(<<"K">>, None, <<"c">>, <<"5">>, <<14, 14>>, resolved_address,
         resolved_phone, resolved_website, extra_info, maps_url, provider) :
        resolved_address \in {None, <<"c">>},
        resolved_phone \in {None, <<"5">>},
        resolved_website \in {None, <<"w">>},
        extra_info \in {None, <<"e">>},
        maps_url \in {None, <<"m">>},
        provider \in {None, <<"nominatim">>, Google}}

\* A few records of two keys and four scores, for longer lists.
ListRecords ==
    {Rec(<<"K">>, branch, <<"c">>, None, <<14, 14>>, None, None,
         resolved_website, extra_info, maps_url, provider) :
        branch \in {None, <<"X">>},
        resolved_website \in {None},
        extra_info \in {None, <<"e">>},
        maps_url \in {None},
        provider \in {<<"nominatim">>, Google}}
    \cup
    {Rec(<<"K">>, branch, <<"c">>, None, <<14, 14>>, None, None, None, None,
         <<"m">>, Google) : branch \in {None, <<"X">>}}

SeqsUpTo(S, n) == UNION {[1..k -> S] : k \in 0..n}

DedupInputs ==
    [1..2 -> KeyRecords] \cup [1..2 -> QualityRecords]
        \cup SeqsUpTo(ListRecords, MaxRecords)

-----------------------------------------------------------------------------
(* scrape_menus.py: scrape_menus *)

Http == <<"h", "t", "t", "p", ":", "/", "/">>
Https == <<"h", "t", "t", "p", "s", ":", "/", "/">>

\* --limit: 0 stands for None.
Limits == {0, 1}

\* A document an extraction returns; both extractors return one only with
\* content in it.
MenuDoc(src, url) == [kind |-> "menu", source |-> src, url |-> url]

\* json.dumps(menu_data)
Dumps(doc) ==
    <<"{", "source", ":", doc.source, ",", "url", ":">> \o doc.url \o <<"}">>

\* scraper.scrape_website(url): None without a fetch for a URL that is not
\* http(s); else what the fetch and the extraction give: None, a document, or
\* the TypeError that json.loads(script.string) raises for a JSON-LD script
\* without text, which nothing between it and scrape_menus catches.
WebsiteOutcomes(url) ==
    IF ~Truthy(url) \/ ~(StartsWith(url, Http) \/ StartsWith(url, Https))
    THEN {NoResult}
    ELSE {NoResult, Raised, MenuDoc("website", url)}

\* scraper.scrape_google_maps(maps_url): None without Selenium.
MapsOutcomes(maps_url, sel) ==
    IF ~sel THEN {NoResult}
    ELSE {NoResult, MenuDoc("google_maps", maps_url)}

\* Selected without the test of menu_data.
SelectedWithMenu(row, f) ==
    Truthy(row.website) \/ Truthy(row.geocode_maps_url)

\* Selected without the test of the website and the map URL.
SelectedWithoutUrls(row, f) == f \/ ~Truthy(row.menu_data)

\* The WHERE clause of the query.
Selected(row, f) ==
    /\ Truthy(row.website) \/ Truthy(row.geocode_maps_url)
    /\ f \/ ~Truthy(row.menu_data)

RECURSIVE SelectedIds(_, _, _)
SelectedIds(store, f, i) ==
    IF i > NumRows THEN <<>>
    ELSE (IF Selected(store[i], f) THEN <<i>> ELSE <<>>)
             \o SelectedIds(store, f, i + 1)

\* rows = connection.execute(query + LIMIT).fetchall()
Query(store, f, limit) ==
    LET all == SelectedIds(store, f, 1)
    IN  IF limit # 0 /\ limit < Len(all) THEN SubSeq(all, 1, limit) ELSE all

\* `if website:`
TriesWebsite(website) == Truthy(website)

\* TriesMaps without the test of the website result.
TriesMapsAlways(md, maps_url) == Truthy(maps_url)

\* `if not menu_data and maps_url:`
TriesMaps(md, maps_url) == ~Found(md) /\ Truthy(maps_url)

\* MenuStored leaving menu_source as it was.
MenuStoredWithoutSource(row, doc, src, now) ==
    [row EXCEPT !.menu_data = Dumps(doc), !.menu_last_scraped = {now}]

\* The UPDATE of a row with a menu.
MenuStored(row, doc, src, now) ==
    [row EXCEPT !.menu_data = Dumps(doc),
                !.menu_last_scraped = {now},
                !.menu_source = src]

\* MenuMissed storing json.dumps(None) as the menu.
MenuMissedStoringNull(row, now) ==
    [row EXCEPT !.menu_data = JsonNull, !.menu_source = None,
                !.menu_last_scraped = {now}]

\* The UPDATE of a row without one: the attempt is stamped.
MenuMissed(row, now) == [row EXCEPT !.menu_last_scraped = {now}]

MenuRunning == mpc \in {"row", "maps", "store", "commit"}

\* scrape_menus(connection, delay_seconds, force, limit, use_selenium)
MenuStart(f, limit, sel) ==
    /\ mpc = "idle"
    /\ runs < MaxRuns
    /\ runs' = runs + 1
    /\ clock' = clock + 1
    /\ mforce' = f
    /\ selenium' = sel
    /\ mrows' = Query(db, f, limit)
    /\ midx' = 1
    /\ mpc' = "row"
    /\ UNCHANGED <<db, disk, menu_data, source, attempts, geoVars, dedupVars>>
    /\ UNCHANGED <<mexit, otherVars>>

\* The head of an iteration and the website attempt; an exception of the
\* attempt ends the run.
MenuWebsite(outcome) ==
    /\ mpc = "row"
    /\ midx <= Len(mrows)
    /\ LET website == db[mrows[midx]].website
       IN  IF TriesWebsite(website)
           THEN /\ outcome \in WebsiteOutcomes(website)
                /\ attempts' = << <<"website", outcome.kind>> >>
                /\ IF outcome = Raised
                   THEN /\ menu_data' = NoResult
                        /\ source' = None
                        /\ mpc' = "idle"
                        /\ mexit' = "error"
                   ELSE /\ menu_data' = outcome
                        /\ source' = IF Found(outcome) THEN <<"website">> ELSE None
                        /\ mpc' = "maps"
                        /\ UNCHANGED mexit
           ELSE /\ outcome = NoResult
                /\ menu_data' = NoResult
                /\ source' = None
                /\ attempts' = <<>>
                /\ mpc' = "maps"
                /\ UNCHANGED mexit
    /\ UNCHANGED <<storeVars, mforce, selenium, mrows, midx, geoVars, dedupVars>>
    /\ UNCHANGED otherVars

\* The Google Maps attempt, made or not.
MenuMaps(outcome) ==
    /\ mpc = "maps"
    /\ LET maps_url == db[mrows[midx]].geocode_maps_url
       IN  IF TriesMaps(menu_data, maps_url)
           THEN /\ outcome \in MapsOutcomes(maps_url, selenium)
                /\ menu_data' = outcome
                /\ source' = IF Found(outcome) THEN <<"google_maps">> ELSE source
                /\ attempts' = Append(attempts, <<"google_maps", outcome.kind>>)
           ELSE /\ outcome = NoResult
                /\ UNCHANGED <<menu_data, source, attempts>>
    /\ mpc' = "store"
    /\ UNCHANGED <<storeVars, mforce, selenium, mrows, midx, geoVars, dedupVars>>
    /\ UNCHANGED <<mexit, otherVars>>

\* connection.execute("UPDATE locations SET ...")
MenuUpdate ==
    /\ mpc = "store"
    /\ db' = [db EXCEPT ![mrows[midx]] =
                 IF Found(menu_data)
                 THEN MenuStored(@, menu_data, source, clock)
                 ELSE MenuMissed(@, clock)]
    /\ mpc' = "commit"
    /\ UNCHANGED <<disk, clock, runs, mforce, selenium, mrows, midx, menu_data,
                   source, attempts, geoVars, dedupVars>>
    /\ UNCHANGED <<mexit, otherVars>>

\* connection.commit(), the sleep between venues, the next iteration.
MenuCommit ==
    /\ mpc = "commit"
    /\ disk' = Committed(db, disk)
    /\ midx' = midx + 1
    /\ mpc' = "row"
    /\ UNCHANGED <<db, clock, runs, mforce, selenium, mrows, menu_data,
                   source, attempts, geoVars, dedupVars>>
    /\ UNCHANGED <<mexit, otherVars>>

\* A KeyboardInterrupt in the loop: nothing catches it, the process ends and
\* SQLite rolls the open transaction back.
MenuInterrupt ==
    /\ MenuRunning
    /\ db' = disk
    /\ mpc' = "idle"
    /\ mexit' = "interrupt"
    /\ UNCHANGED <<disk, clock, runs, mforce, selenium, mrows, midx, menu_data,
                   source, attempts, geoVars, dedupVars, otherVars>>

\* return stats
MenuReturn ==
    /\ mpc = "row"
    /\ midx > Len(mrows)
    /\ mpc' = "idle"
    /\ UNCHANGED <<storeVars, mforce, selenium, mrows, midx, menu_data,
                   source, attempts, geoVars, dedupVars>>
    /\ mexit' = "return"
    /\ UNCHANGED otherVars

-----------------------------------------------------------------------------
(* scrape_menus.py: MenuScraper.__init__, fetch_html, scrape_website         *)

NoScraper == [use_selenium |-> FALSE, driver |-> FALSE]

\* A page with text in it.
PageText == <<"<", "p", ">">>

\* The page of a script-driven site before its scripts have run.
PageShell == <<"<", "s", "c", "r", "i", "p", "t", ">">>

\* What a fetch gives: None for an exception (raise_for_status included),
\* the text of the response or of the rendered page, which can be empty.
FetchOutcomes == {None, <<>>, PageText, PageShell}

\* MenuScraper(use_selenium=...): use_selenium and SELENIUM_AVAILABLE, and
\* _init_selenium, which clears use_selenium when webdriver.Chrome raises.
ScraperInit(driver_starts) ==
    /\ fpc = "new"
    /\ scraper' = IF use_selenium_arg /\ selenium_available /\ driver_starts
                  THEN [use_selenium |-> TRUE, driver |-> TRUE]
                  ELSE NoScraper
    /\ fpc' = "ready"
    /\ UNCHANGED <<use_selenium_arg, selenium_available, furl, fetches,
                   fetched_html,
                   storeVars, geoVars, dedupVars, menuVars, upsertVars,
                   extractVars, renderVars, buildVars, addressVars, again,
                   schemaVars>>

\* fetch_html(url, use_selenium): the page and the fetches made for it, given
\* what driver.get and session.get would give.
FetchHtml(self, use_selenium, rendered, raw) ==
    IF use_selenium /\ self.use_selenium /\ self.driver /\ rendered # None
    THEN [html |-> rendered, log |-> << <<"selenium", rendered>> >>]
    ELSE [html |-> raw,
          log |-> (IF use_selenium /\ self.use_selenium /\ self.driver
                   THEN << <<"selenium", None>> >> ELSE <<>>)
                  \o << <<"requests", raw>> >>]

\* The fetches of scrape_website for the venue URL: fetch_html(url,
\* use_selenium=False), then fetch_html(url, use_selenium=True) under
\* `not html and self.use_selenium`.
WebsiteFetch(self, raw1, rendered, raw2) ==
    LET first == FetchHtml(self, FALSE, rendered, raw1)
    IN  IF ~Truthy(first.html) /\ self.use_selenium
        THEN LET second == FetchHtml(self, TRUE, rendered, raw2)
             IN  [html |-> second.html, log |-> first.log \o second.log]
        ELSE first

\* scrape_website(url) up to `if not html: return None`; the extraction that
\* follows is extract_menu_generic, and the fetch of a menu link found in
\* the page is a fetch of another URL.
ScrapeWebsiteFetch(raw1, rendered, raw2) ==
    /\ fpc = "ready"
    /\ fpc' = "done"
    /\ IF ~Truthy(furl) \/ ~(StartsWith(furl, Http) \/ StartsWith(furl, Https))
       THEN /\ raw1 = None /\ rendered = None /\ raw2 = None
            /\ UNCHANGED <<fetches, fetched_html>>
       ELSE LET got == WebsiteFetch(scraper, raw1, rendered, raw2)
            IN  /\ fetches' = got.log
                /\ fetched_html' = got.html
    /\ UNCHANGED <<use_selenium_arg, selenium_available, scraper, furl,
                   storeVars, geoVars, dedupVars, menuVars, upsertVars,
                   extractVars, renderVars, buildVars, addressVars, again,
                   schemaVars>>

\* The url arguments: the websites of the listing, https ones, none.
FetchUrls ==
    {None, <<>>, Https \o <<"w">>, Https \o <<"n">>}
        \cup {Listing[i].website : i \in DOMAIN Listing}

-----------------------------------------------------------------------------
(* scrape_menus.py: MenuScraper.extract_menu_generic *)

MaxElements == 2

MaxScripts == 1

MaxLinks == 1

\* An element of class menu-item, food-item, dish or product, by the text of
\* its name element: None without a name element.
ElementNames == {None, <<>>, <<"d">>}

\* _extract_item_details(element): an item only for a non-empty name.
ExtractItemDetails(name) ==
    IF Truthy(name) THEN [kind |-> "item", name |-> name, price |-> None]
    ELSE NoResult

\* Strategy 2: the items of the elements that give one.
RECURSIVE StructuralItems(_)
StructuralItems(elements) ==
    IF elements = <<>> THEN <<>>
    ELSE LET item_data == ExtractItemDetails(Head(elements))
         IN  (IF Found(item_data) /\ Truthy(item_data.name)
              THEN <<item_data>> ELSE <<>>) \o StructuralItems(Tail(elements))

\* _extract_from_text(soup): one item per element whose text is a name, a
\* separator and a price.
ExtractFromText(lines) ==
    [i \in 1..lines |-> [kind |-> "item", name |-> <<"s">>, price |-> <<"9">>]]

\* A <script type="application/ld+json">, by what json.loads makes of
\* script.string: "empty" is a script without text (script.string is None),
\* "invalid" text that is not JSON, "type_list" a list whose item has a list
\* as @type.
ScriptKinds ==
    {"empty", "invalid", "restaurant", "organization", "list_restaurant",
     "type_list"}

\* One pass of the loop over the scripts: the exception it lets through, or
\* the json_ld it sets.
ScriptEffect(script) ==
    CASE script = "empty" -> [kind |-> "raise", exc |-> "TypeError"]
      [] script \in {"restaurant", "list_restaurant"} ->
             [kind |-> "json_ld", data |-> script]
      [] OTHER -> NoResult

\* _extract_structured_data(soup): the last json_ld found, None without one;
\* only JSONDecodeError and AttributeError are caught.
RECURSIVE StructuredData(_, _)
StructuredData(scripts, found) ==
    IF scripts = <<>> THEN found
    ELSE LET effect == ScriptEffect(Head(scripts))
         IN  IF effect.kind = "raise" THEN effect
             ELSE StructuredData(Tail(scripts),
                                 IF Found(effect) THEN effect ELSE found)

\* extract_menu_generic running the price-line scan beside the item-card scan.
extract_menu_generic_mixed(html, url) ==
    LET items == StructuralItems(html.elements) \o ExtractFromText(html.lines)
        structured == StructuredData(html.scripts, NoResult)
    IN  IF structured.kind = "raise" THEN structured
        ELSE IF items # <<>> \/ Found(structured)
        THEN [kind |-> "menu", source |-> "website", url |-> url,
              items |-> items, categories |-> html.headings,
              structured_data |-> structured]
        ELSE NoResult

\* extract_menu_generic(html, url): the document, None, or the exception that
\* escapes it.  The anchors and images of the page are not read.
extract_menu_generic(html, url) ==
    LET structural == StructuralItems(html.elements)
        items == IF structural = <<>> THEN ExtractFromText(html.lines)
                 ELSE structural
        structured == StructuredData(html.scripts, NoResult)
    IN  IF structured.kind = "raise" THEN structured
        ELSE IF items # <<>> \/ Found(structured)
        THEN [kind |-> "menu", source |-> "website", url |-> url,
              items |-> items, categories |-> html.headings,
              structured_data |-> structured]
        ELSE NoResult

Pending == [kind |-> "pending"]

PageUrl == <<"h", "t", "t", "p", ":", "/", "/", "w">>

\* The pages: item elements, priced text lines, JSON-LD scripts, headings of
\* menu sections, anchors to PDF files and menu images.
Pages ==
    [elements : SeqsUpTo(ElementNames, MaxElements),
     lines : 0..1,
     scripts : SeqsUpTo(ScriptKinds, MaxScripts),
     headings : {<<>>, << <<"c">> >>},
     pdf_links : SeqsUpTo({<<"m", ".", "p", "d", "f">>}, MaxLinks),
     image_links : SeqsUpTo({<<"m", ".", "j", "p", "g">>}, MaxLinks)]

\* menu_data = self.extract_menu_generic(html, url)
ExtractMenu ==
    /\ extracted = Pending
    /\ extracted' = extract_menu_generic(page, PageUrl)
    /\ UNCHANGED <<page, storeVars, geoVars, dedupVars, menuVars, upsertVars,
                   renderVars, buildVars, restVars>>

-----------------------------------------------------------------------------
(* The columns of the table: scrape_crystal.py initialise_database,          *)
(* scrape_menus.py ensure_menu_columns, load_locations of generate_map.py    *)
(* and of generate_google_list.py                                            *)

\* CREATE TABLE IF NOT EXISTS locations (...)
CreatedColumns ==
    {"id", "unique_key", "brand", "branch", "address", "phone", "website",
     "extra_info", "latitude", "longitude", "geocode_provider", "raw_payload",
     "last_updated"}

\* The columns of the table of the first version of scrape_crystal.py.
FirstColumns == CreatedColumns \ {"geocode_provider"}

\* The ensure_column calls of initialise_database.
EnsuredColumns ==
    {"geocode_provider", "resolved_address", "resolved_phone",
     "resolved_website", "geocode_place_id", "geocode_maps_url"}

\* The columns ensure_menu_columns adds.
MenuColumns == {"menu_data", "menu_last_scraped", "menu_source"}

\* The column scrape_menus stamps when it stores a menu.
MenuStampColumn == "menu_last_scraped"

\* The SELECT list of load_locations in generate_map.py.
MapSelected ==
    {"brand", "branch", "address", "phone", "website", "extra_info",
     "latitude", "longitude", "geocode_provider", "resolved_address",
     "resolved_phone", "resolved_website", "geocode_maps_url", "menu_data",
     "menu_source", "menu_last_updated"}

\* The SELECT list of load_locations in generate_google_list.py.
ListSelected ==
    {"brand", "branch", "address", "phone", "website", "extra_info",
     "resolved_address", "resolved_phone", "resolved_website",
     "geocode_maps_url", "menu_data", "menu_source", "menu_last_updated"}

\* connection.execute(query).fetchall(): the rows by the columns named, or
\* sqlite3.OperationalError (no such column).
Select(table_columns, wanted) ==
    IF wanted \subseteq table_columns
    THEN [kind |-> "rows", read |-> wanted]
    ELSE [kind |-> "raise", exc |-> "OperationalError"]

\* initialise_database(db_path)
InitialiseDatabase ==
    /\ "initialise" \notin steps_done
    /\ columns' = (IF columns = {} THEN CreatedColumns ELSE columns)
                      \cup EnsuredColumns
    /\ steps_done' = steps_done \cup {"initialise"}
    /\ UNCHANGED <<loaded_map, loaded_list, storeVars, geoVars, dedupVars,
                   menuVars, upsertVars, extractVars, renderVars, buildVars,
                   addressVars, again, fetchVars>>

\* ensure_menu_columns(connection), on the database scrape_crystal.py made.
EnsureMenuColumns ==
    /\ columns # {}
    /\ "menu" \notin steps_done
    /\ columns' = columns \cup MenuColumns
    /\ steps_done' = steps_done \cup {"menu"}
    /\ UNCHANGED <<loaded_map, loaded_list, storeVars, geoVars, dedupVars,
                   menuVars, upsertVars, extractVars, renderVars, buildVars,
                   addressVars, again, fetchVars>>

\* generate_map.py main: records = load_locations(connection)
LoadLocationsMap ==
    /\ columns # {}
    /\ loaded_map = Pending
    /\ loaded_map' = Select(columns, MapSelected)
    /\ UNCHANGED <<columns, steps_done, loaded_list, storeVars, geoVars,
                   dedupVars, menuVars, upsertVars, extractVars, renderVars,
                   buildVars, addressVars, again, fetchVars>>

\* generate_google_list.py main: records = load_locations(connection)
LoadLocationsList ==
    /\ columns # {}
    /\ loaded_list = Pending
    /\ loaded_list' = Select(columns, ListSelected)
    /\ UNCHANGED <<columns, steps_done, loaded_map, storeVars, geoVars,
                   dedupVars, menuVars, upsertVars, extractVars, renderVars,
                   buildVars, addressVars, again, fetchVars>>

\* The tables the scripts can find: none, or the table of an earlier
\* version, with some of the later columns.
Tables ==
    {{}} \cup {FirstColumns \cup e \cup m :
                  e \in SUBSET EnsuredColumns, m \in SUBSET MenuColumns}

-----------------------------------------------------------------------------
(* generate_map.py: build_popup; generate_google_list.py: build_row_html     *)
(* The menu part of both, on the menu_data column of the record.             *)

\* JSON values as json.loads returns them, tagged with their Python type.
JNull == [t |-> "null"]
JNum(n) == [t |-> "number", n |-> n]
JStr(text) == [t |-> "string", s |-> text]
JArr(elems) == [t |-> "array", a |-> elems]
JObj(fields) == [t |-> "object", o |-> fields]

\* A key the object does not hold.
Absent == [t |-> "absent"]

NoFields == [k \in {} |-> JNull]

\* {key: value}, {} for an absent value.
Pair(key, value) == IF value = Absent THEN NoFields ELSE (key :> value)

\* bool(value)
TruthyJ(j) ==
    CASE j.t = "null" -> FALSE
      [] j.t = "number" -> j.n # 0
      [] j.t = "string" -> j.s # <<>>
      [] j.t = "array" -> j.a # <<>>
      [] j.t = "object" -> DOMAIN j.o # {}

\* The exception of calling .get on a value: "" for none.
ExcGet(j) == IF j.t = "object" THEN "" ELSE "AttributeError"

\* dict.get(key, default)
Field(j, key, default) == IF key \in DOMAIN j.o THEN j.o[key] ELSE default

\* The exception of iterating a value.
ExcIter(j) == IF j.t \in {"array", "string", "object"} THEN "" ELSE "TypeError"

RECURSIVE KeySeq(_)
KeySeq(keys) ==
    IF keys = {} THEN <<>>
    ELSE LET k == CHOOSE x \in keys : TRUE
         IN  <<JStr(<<k>>)>> \o KeySeq(keys \ {k})

\* What iterating a value yields: the elements of a list, the characters of
\* a string, the keys of a dict.
Elements(j) ==
    CASE j.t = "array" -> j.a
      [] j.t = "string" -> [i \in DOMAIN j.s |-> JStr(<<j.s[i]>>)]
      [] j.t = "object" -> KeySeq(DOMAIN j.o)

\* The exception of len(value).
ExcLen(j) == IF j.t \in {"null", "number"} THEN "TypeError" ELSE ""

Size(j) == Len(Elements(j))

\* The exception of value.lower() and of html.escape(value), which calls
\* value.replace.
ExcStr(j) == IF j.t = "string" THEN "" ELSE "AttributeError"

\* The exception of value[:2].
ExcSlice(j) == IF j.t \in {"array", "string"} THEN "" ELSE "TypeError"

\* NAVIGATION_TERMS, the dotless i and the s with cedilla written i and s.
NAVIGATION_TERMS ==
    << <<"a", "n", "a", " ", "s", "a", "y", "f", "a">>,
       <<"h", "a", "k", "k", "i", "m", "i", "z", "d", "a">>,
       <<"i", "l", "e", "t", "i", "s", "i", "m">>,
       <<"m", "a", "r", "k", "a", "l", "a", "r", "i", "m", "i", "z">> >>

\* The condition of the list comprehension for one item: the exception it
\* raises, or whether the item is kept.
ItemFilter(item) ==
    IF ExcGet(item) # "" THEN [exc |-> ExcGet(item), keep |-> FALSE]
    ELSE LET name == Field(item, "name", JNull)
             price == Field(item, "price", JNull)
         IN  IF ~TruthyJ(name) THEN [exc |-> "", keep |-> FALSE]
             ELSE IF TruthyJ(price) THEN [exc |-> "", keep |-> TRUE]
             ELSE IF ExcLen(name) # "" THEN [exc |-> ExcLen(name), keep |-> FALSE]
             ELSE IF Size(name) >= 50 THEN [exc |-> "", keep |-> FALSE]
             ELSE IF ExcStr(name) # "" THEN [exc |-> ExcStr(name), keep |-> FALSE]
             ELSE [exc |-> "",
                   keep |-> ~\E i \in DOMAIN NAVIGATION_TERMS :
                                Contains(Lower(name.s), NAVIGATION_TERMS[i])]

\* meaningful_items = [item for item in items if ...]
RECURSIVE MeaningfulItems(_)
MeaningfulItems(items) ==
    IF items = <<>> THEN [exc |-> "", kept |-> <<>>]
    ELSE LET first == ItemFilter(Head(items))
             rest == MeaningfulItems(Tail(items))
         IN  IF first.exc # "" THEN [exc |-> first.exc, kept |-> <<>>]
             ELSE IF rest.exc # "" THEN rest
             ELSE [exc |-> "",
                   kept |-> (IF first.keep THEN <<Head(items)>> ELSE <<>>)
                                \o rest.kept]

\* The first exception of a sequence of steps.
RECURSIVE FirstExc(_)
FirstExc(excs) ==
    IF excs = <<>> THEN ""
    ELSE IF Head(excs) # "" THEN Head(excs)
    ELSE FirstExc(Tail(excs))

\* section.get("items", []), filtered: both functions start a section so.
SectionItems(section) ==
    IF ExcGet(section) # "" THEN [exc |-> ExcGet(section), kept |-> <<>>]
    ELSE LET items == Field(section, "items", JArr(<<>>))
         IN  IF ExcIter(items) # "" THEN [exc |-> ExcIter(items), kept |-> <<>>]
             ELSE MeaningfulItems(Elements(items))

\* The escapes of the items shown: the name, and the price when there is one.
RECURSIVE ExcItemsShown(_)
ExcItemsShown(items) ==
    IF items = <<>> THEN ""
    ELSE LET name == Field(Head(items), "name", JStr(<<>>))
             price == Field(Head(items), "price", JNull)
         IN  FirstExc(<<ExcStr(name),
                        IF TruthyJ(price) THEN ExcStr(price) ELSE "",
                        ExcItemsShown(Tail(items))>>)

\* build_popup, one iteration of `for section in menu["sections"]`: the
\* exception it raises, or whether it showed the section.
PopupSection(section) ==
    LET found == SectionItems(section)
    IN  IF found.exc # "" THEN [exc |-> found.exc, showed |-> FALSE]
        ELSE IF found.kept = <<>> THEN [exc |-> "", showed |-> FALSE]
        ELSE LET section_name == Field(section, "name", JStr(<<>>))
             IN  [exc |-> FirstExc(<<IF TruthyJ(section_name)
                                     THEN ExcStr(section_name) ELSE "",
                                     ExcItemsShown(SubSeq(found.kept, 1,
                                         IF Len(found.kept) < 4
                                         THEN Len(found.kept) ELSE 4))>>),
                  showed |-> TRUE]

\* The loop over the sections, which stops after two sections shown.
RECURSIVE PopupSections(_, _)
PopupSections(sections, sections_shown) ==
    IF sections = <<>> \/ sections_shown >= 2 THEN ""
    ELSE LET one == PopupSection(Head(sections))
         IN  IF one.exc # "" THEN one.exc
             ELSE PopupSections(Tail(sections),
                      sections_shown + (IF one.showed THEN 1 ELSE 0))

\* total_sections = len([s for s in menu.get("sections", []) if s.get("items")])
ExcTotalSections(sections) ==
    FirstExc([i \in DOMAIN sections |-> ExcGet(sections[i])])

\* The loop over menu["pdf_menus"][:2].
RECURSIVE ExcPdfLinks(_)
ExcPdfLinks(pdfs) ==
    IF pdfs = <<>> THEN ""
    ELSE LET pdf == Head(pdfs)
         IN  IF ExcGet(pdf) # "" THEN ExcGet(pdf)
             ELSE LET pdf_url == Field(pdf, "url", JStr(<<>>))
                      pdf_text == Field(pdf, "text", JStr(<<"P", "D", "F">>))
                  IN  FirstExc(<<ExcStr(pdf_text),
                                 IF TruthyJ(pdf_url) THEN ExcStr(pdf_url) ELSE "",
                                 ExcPdfLinks(Tail(pdfs))>>)

\* except (json.JSONDecodeError, TypeError): pass
CaughtByRender == {"JSONDecodeError", "TypeError"}

\* What a rendering function returns: the HTML, with the menu block whole,
\* cut short by a caught exception, or missing; or the exception it raises.
Rendered(exc, emitted) ==
    IF exc = "" THEN [kind |-> "html", menu |-> IF emitted THEN "menu" ELSE "none"]
    ELSE IF exc \in CaughtByRender
    THEN [kind |-> "html", menu |-> IF emitted THEN "partial" ELSE "none"]
    ELSE [kind |-> "raise", exc |-> exc]

\* build_popup(record, display), its menu block; the parts appended before an
\* exception stay in the popup.
build_popup(stored) ==
    IF stored.t = "empty" THEN Rendered("", FALSE)
    ELSE IF stored.t = "invalid" THEN Rendered("JSONDecodeError", FALSE)
    ELSE IF ExcGet(stored) # "" THEN Rendered(ExcGet(stored), FALSE)
    ELSE LET sections == Field(stored, "sections", JNull)
             pdf_menus == Field(stored, "pdf_menus", JNull)
         IN  IF TruthyJ(sections)
             THEN Rendered(
                      IF ExcIter(sections) # "" THEN ExcIter(sections)
                      ELSE FirstExc(<<PopupSections(Elements(sections), 0),
                                      ExcTotalSections(Elements(sections))>>),
                      TRUE)
             ELSE IF TruthyJ(pdf_menus)
             THEN Rendered(
                      IF ExcSlice(pdf_menus) # "" THEN ExcSlice(pdf_menus)
                      ELSE ExcPdfLinks(SubSeq(Elements(pdf_menus), 1,
                               IF Size(pdf_menus) < 2 THEN Size(pdf_menus) ELSE 2)),
                      TRUE)
             ELSE Rendered("", FALSE)

\* build_row_html, the loop over the sections: the exception it raises, or
\* total_items.
RECURSIVE RowSections(_)
RowSections(sections) ==
    IF sections = <<>> THEN [exc |-> "", total_items |-> 0]
    ELSE LET found == SectionItems(Head(sections))
             rest == RowSections(Tail(sections))
         IN  IF found.exc # "" THEN [exc |-> found.exc, total_items |-> 0]
             ELSE IF rest.exc # "" THEN rest
             ELSE [exc |-> "",
                   total_items |-> Len(found.kept) + rest.total_items]

\* build_row_html(record), its menu block: menu_html is set after the last
\* step that can raise.
build_row_html(stored) ==
    IF stored.t = "empty" THEN Rendered("", FALSE)
    ELSE IF stored.t = "invalid" THEN Rendered("JSONDecodeError", FALSE)
    ELSE IF ExcGet(stored) # "" THEN Rendered(ExcGet(stored), FALSE)
    ELSE LET sections == Field(stored, "sections", JNull)
             counted == IF ~TruthyJ(sections) THEN [exc |-> "", total_items |-> 0]
                        ELSE IF ExcIter(sections) # ""
                        THEN [exc |-> ExcIter(sections), total_items |-> 0]
                        ELSE RowSections(Elements(sections))
         IN  IF counted.exc # "" THEN Rendered(counted.exc, FALSE)
             ELSE Rendered("",
                      \/ counted.total_items > 0
                      \/ TruthyJ(Field(stored, "pdf_menus", JNull))
                      \/ TruthyJ(Field(stored, "image_menus", JNull)))

MaxListed == 1

\* The menu_data values of the store: NULL or '', text that is not JSON, JSON
\* that is not an object, and objects with sections, pdf_menus and
\* image_menus of expected and unexpected shapes.
ItemValues ==
    {JObj(Pair("name", n) @@ Pair("price", q)) :
        n \in {Absent, JStr(<<"x">>), JNum(5)},
        q \in {Absent, JStr(<<"9">>), JNum(5)}} \cup {JNum(5)}

ItemLists ==
    {JArr(l) : l \in SeqsUpTo(ItemValues, MaxListed)} \cup {JNum(5), Absent}

SectionValues ==
    {JObj(Pair("name", n) @@ Pair("items", l)) :
        n \in {Absent, JStr(<<"c">>), JNum(5)}, l \in ItemLists} \cup {JNum(5)}

SectionLists ==
    {JArr(l) : l \in SeqsUpTo(SectionValues, MaxListed)}
        \cup {JNum(5), JStr(<<"a">>), Absent}

PdfValues ==
    {JObj(Pair("url", u) @@ Pair("text", x)) :
        u \in {Absent, JStr(<<"u">>)},
        x \in {Absent, JStr(<<"t">>), JNum(5)}} \cup {JNum(5)}

PdfLists ==
    {JArr(l) : l \in SeqsUpTo(PdfValues, MaxListed)} \cup {JNum(5), Absent}

ImageLists == {Absent, JArr(<<JStr(<<"i">>)>>)}

StoredValues ==
    {[t |-> "empty"], [t |-> "invalid"], JNull, JNum(5), JStr(<<"x">>),
     JArr(<<>>)}
        \cup {JObj(Pair("sections", a) @@ Pair("pdf_menus", b)
                       @@ Pair("image_menus", c)) :
                 a \in SectionLists, b \in PdfLists, c \in ImageLists}

\* generate_map renders the popup of the record.
RenderPopup ==
    /\ popup = Pending
    /\ popup' = build_popup(shown)
    /\ UNCHANGED <<shown, row_html, storeVars, geoVars, dedupVars, menuVars,
                   upsertVars, extractVars, buildVars, restVars>>

\* generate_google_list renders the row of the record.
RenderRow ==
    /\ row_html = Pending
    /\ row_html' = build_row_html(shown)
    /\ UNCHANGED <<shown, popup, storeVars, geoVars, dedupVars, menuVars,
                   upsertVars, extractVars, buildVars, restVars>>

-----------------------------------------------------------------------------
(* scrape_crystal.py: build_geocoders *)

MaxNames == 3

KeyNominatim == <<"n", "o", "m", "i", "n", "a", "t", "i", "m">>
KeyArcgis == <<"a", "r", "c", "g", "i", "s">>
KeyPhoton == <<"p", "h", "o", "t", "o", "n">>
KeyGoogle == <<"g", "o", "o", "g", "l", "e">>

SUPPORTED_GEOCODERS == {KeyNominatim, KeyArcgis, KeyPhoton, KeyGoogle}

\* key = name.strip().lower()
GeocoderKey(name) == Lower(Strip(name, Whitespace))

\* Appended taking the google provider without its API key.
AppendedWithoutKeyCheck(key, api_key, imported) ==
    /\ key # <<>>
    /\ key \in SUPPORTED_GEOCODERS
    /\ key \in {KeyNominatim, KeyArcgis, KeyPhoton} => imported

\* The body of the loop for one name: TRUE when (key, geocode_func) is
\* appended, FALSE when the name is passed over with `continue`.
Appended(key, api_key, imported) ==
    /\ key # <<>>
    /\ key \in SUPPORTED_GEOCODERS
    /\ key \in {KeyNominatim, KeyArcgis, KeyPhoton} => imported
    /\ key = KeyGoogle => Truthy(api_key)

\* One iteration of `for name in names`.
BuildName ==
    /\ bi > 0
    /\ bi <= Len(names)
    /\ built' = IF Appended(GeocoderKey(names[bi]), google_api_key, geopy)
                THEN Append(built, GeocoderKey(names[bi]))
                ELSE built
    /\ bi' = bi + 1
    /\ UNCHANGED <<names, google_api_key, geopy, storeVars, geoVars, dedupVars,
                   menuVars, upsertVars, extractVars, renderVars,
                   restVars>>

\* return geocoders
BuildReturn ==
    /\ bi > Len(names)
    /\ bi' = 0
    /\ UNCHANGED <<names, google_api_key, geopy, built, storeVars, geoVars,
                   dedupVars, menuVars, upsertVars, extractVars, renderVars,
                   restVars>>

\* The names of --geocoder-list: supported ones, one to be trimmed and
\* lower-cased, an unsupported one, an empty and a blank one.
RequestedNames ==
    {KeyNominatim, KeyArcgis, <<" ", "G", "o", "o", "g", "l", "e">>,
     <<"b", "i", "n", "g">>, <<>>, <<" ">>}

-----------------------------------------------------------------------------
(* Specifications *)

GeoIdle ==
    /\ pc = "idle"
    /\ force = FALSE
    /\ geocoders = <<>>
    /\ delay_given = 0
    /\ delay = 0
    /\ idx = 0
    /\ gi = 0
    /\ location = NoResult
    /\ provider_used = None
    /\ search_text = <<>>
    /\ calls = <<>>
    /\ sleeps = 0
    /\ failures = <<>>
    /\ updated = {}

DedupIdle ==
    /\ records = <<>>
    /\ unique = <<>>
    /\ pos = 0
    /\ output = <<>>

MenuIdle ==
    /\ mpc = "idle"
    /\ mforce = FALSE
    /\ selenium = FALSE
    /\ mrows = <<>>
    /\ midx = 0
    /\ menu_data = NoResult
    /\ source = None
    /\ attempts = <<>>
    /\ mexit = "return"

UpsertIdle ==
    /\ incoming = <<>>
    /\ upos = 0
    /\ ingested = {}

ExtractIdle ==
    /\ page = <<>>
    /\ extracted = NoResult

RenderIdle ==
    /\ shown = None
    /\ popup = NoResult
    /\ row_html = NoResult

BuildIdle ==
    /\ names = <<>>
    /\ google_api_key = None
    /\ geopy = TRUE
    /\ bi = 0
    /\ built = <<>>

AddressIdle ==
    /\ given_address = None
    /\ cleaned = NotCalled

RerunIdle == again = NotRerun

FetchIdle ==
    /\ fpc = "idle"
    /\ use_selenium_arg = FALSE
    /\ selenium_available = FALSE
    /\ scraper = NoScraper
    /\ furl = None
    /\ fetches = <<>>
    /\ fetched_html = None

SchemaIdle ==
    /\ columns = {}
    /\ steps_done = {}
    /\ loaded_map = Pending
    /\ loaded_list = Pending

RestIdle == AddressIdle /\ RerunIdle /\ FetchIdle /\ SchemaIdle

OtherIdle == UpsertIdle /\ ExtractIdle /\ RenderIdle /\ BuildIdle /\ RestIdle

\* The store after scrape_crystal.py has parsed the listing and upserted it.
GeoInit ==
    /\ db = [i \in Ids |-> NewRow(VenueAt(i), 0)]
    /\ disk = db
    /\ clock = 0
    /\ runs = 0
    /\ GeoIdle
    /\ DedupIdle
    /\ MenuIdle
    /\ OtherIdle

GeoNext ==
    \/ \E f \in BOOLEAN, chain \in Chains, d \in DelayArgs : GeoStart(f, chain, d)
    \/ GeoRow
    \/ \E o \in UNION {Outcomes(n) : n \in ProviderNames} : GeoTry(o)
    \/ GeoFail
    \/ GeoStore
    \/ GeoCommit
    \/ GeoInterrupt

SpecGeo == GeoInit /\ [][GeoNext]_vars

\* generate_map has loaded the records and calls deduplicate_records.
DedupInit ==
    /\ db = [i \in Ids |-> NewRow(VenueAt(i), 0)]
    /\ disk = db
    /\ clock = 0
    /\ runs = 0
    /\ GeoIdle
    /\ MenuIdle
    /\ records \in DedupInputs
    /\ unique = <<>>
    /\ pos = 1
    /\ output = <<>>
    /\ OtherIdle

DedupNext ==
    \/ DedupStep
    \/ DedupReturn

SpecDedup == DedupInit /\ [][DedupNext]_vars

\* A row as the google provider resolves it, map URL included.
GoogleResolved(row) ==
    Resolved(row, CHOOSE loc \in ResultsOf("google") : TRUE, "google", 0)

\* Geocoding has resolved a row through google or has not.
MenuRowChoices(v) ==
    IF normalise_address(v.address) # None
    THEN {NewRow(v, 0), GoogleResolved(NewRow(v, 0))}
    ELSE {NewRow(v, 0)}

\* What scrape_website and scrape_google_maps can return for the rows.
WebsiteDocs == {MenuDoc("website", Listing[i].website) : i \in DOMAIN Listing}
MapsDocs == {MenuDoc("google_maps", <<"m">>)}

\* The store after scrape_crystal.py has run and ensure_menu_columns has
\* added the menu columns.
MenuInit ==
    /\ db \in [Ids -> UNION {MenuRowChoices(VenueAt(i)) : i \in Ids}]
    /\ \A i \in Ids : db[i] \in MenuRowChoices(VenueAt(i))
    /\ disk = db
    /\ clock = 0
    /\ runs = 0
    /\ GeoIdle
    /\ DedupIdle
    /\ MenuIdle
    /\ OtherIdle

MenuNext ==
    \/ \E f \in BOOLEAN, limit \in Limits, sel \in BOOLEAN : MenuStart(f, limit, sel)
    \/ \E o \in {NoResult, Raised} \cup WebsiteDocs : MenuWebsite(o)
    \/ \E o \in {NoResult} \cup MapsDocs : MenuMaps(o)
    \/ MenuUpdate
    \/ MenuCommit
    \/ MenuInterrupt
    \/ MenuReturn

SpecMenu == MenuInit /\ [][MenuNext]_vars

\* scrape_website has fetched a page and hands it to extract_menu_generic.
ExtractInit ==
    /\ db = [i \in Ids |-> NewRow(VenueAt(i), 0)]
    /\ disk = db
    /\ clock = 0
    /\ runs = 0
    /\ GeoIdle
    /\ DedupIdle
    /\ MenuIdle
    /\ UpsertIdle
    /\ RenderIdle
    /\ BuildIdle
    /\ RestIdle
    /\ page \in Pages
    /\ extracted = Pending

ExtractNext == ExtractMenu

SpecExtract == ExtractInit /\ [][ExtractNext]_vars

\* initialise_database has created an empty table.
UpsertInit ==
    /\ db = <<>>
    /\ disk = <<>>
    /\ clock = 0
    /\ runs = 0
    /\ GeoIdle
    /\ DedupIdle
    /\ MenuIdle
    /\ OtherIdle

UpsertNext ==
    \/ \E recs \in SeqsUpTo(IncomingRecords, MaxIncoming) : UpsertStart(recs)
    \/ UpsertRecord
    \/ UpsertCommit

SpecUpsert == UpsertInit /\ [][UpsertNext]_vars

\* load_locations has read a record with its menu_data.
RenderInit ==
    /\ db = [i \in Ids |-> NewRow(VenueAt(i), 0)]
    /\ disk = db
    /\ clock = 0
    /\ runs = 0
    /\ GeoIdle
    /\ DedupIdle
    /\ MenuIdle
    /\ UpsertIdle
    /\ ExtractIdle
    /\ BuildIdle
    /\ RestIdle
    /\ shown \in StoredValues
    /\ popup = Pending
    /\ row_html = Pending

RenderNext ==
    \/ RenderPopup
    \/ RenderRow

SpecRender == RenderInit /\ [][RenderNext]_vars

\* main calls build_geocoders with the names, the API key or None, and geopy
\* imported or not.
BuildInit ==
    /\ db = [i \in Ids |-> NewRow(VenueAt(i), 0)]
    /\ disk = db
    /\ clock = 0
    /\ runs = 0
    /\ GeoIdle
    /\ DedupIdle
    /\ MenuIdle
    /\ UpsertIdle
    /\ ExtractIdle
    /\ RenderIdle
    /\ RestIdle
    /\ names \in SeqsUpTo(RequestedNames, MaxNames)
    /\ google_api_key \in {None, <<>>, <<"k">>}
    /\ geopy \in BOOLEAN
    /\ bi = 1
    /\ built = <<>>

BuildNext ==
    \/ BuildName
    \/ BuildReturn

SpecBuild == BuildInit /\ [][BuildNext]_vars

\* The link the listing shows for its first venue when it is scraped again.
NewLink == <<"h", "t", "t", "p", ":", "/", "/", "n">>

\* What parse_locations hands over when the listing is scraped again: its
\* venues in the order of the page, the first one with the link it had or
\* with a new one; coordinates are None in every record.
RescrapedRecords ==
    {[i \in Ids |-> IF i = 1 THEN [VenueAt(1) EXCEPT !.website = link]
                               ELSE VenueAt(i)] :
        link \in {VenueAt(1).website, NewLink}}

\* The chains the runs of the whole pipeline are given.
StoreChains == {<<"google">>, <<"nominatim", "google">>}

\* The scripts are run one after the other.
NoScriptRunning == pc = "idle" /\ mpc = "idle" /\ upos = 0

\* scrape_crystal.py main without --geocode: the listing is ingested again.
StoreIngest ==
    /\ NoScriptRunning
    /\ \E recs \in RescrapedRecords : UpsertStart(recs)

\* scrape_crystal.py main reaching geocode_records.
StoreGeocode ==
    /\ NoScriptRunning
    /\ \E f \in BOOLEAN, chain \in StoreChains : GeoStart(f, chain, 15)

\* scrape_menus.py main without --limit and without --no-selenium.
StoreMenus ==
    /\ NoScriptRunning
    /\ \E f \in BOOLEAN : MenuStart(f, 0, TRUE)

\* The store after the first run of scrape_crystal.py, on which the three
\* writers of the table then run in any order.
StoreInit == GeoInit

StoreNext ==
    \/ StoreIngest
    \/ UpsertRecord
    \/ UpsertCommit
    \/ StoreGeocode
    \/ GeoRow
    \/ \E o \in UNION {Outcomes(n) : n \in ProviderNames} : GeoTry(o)
    \/ GeoFail
    \/ GeoStore
    \/ GeoCommit
    \/ GeoInterrupt
    \/ StoreMenus
    \/ \E o \in {NoResult, Raised, MenuDoc("website", NewLink)} \cup WebsiteDocs : MenuWebsite(o)
    \/ \E o \in {NoResult} \cup MapsDocs : MenuMaps(o)
    \/ MenuUpdate
    \/ MenuCommit
    \/ MenuInterrupt
    \/ MenuReturn

SpecStore == StoreInit /\ [][StoreNext]_vars

\* The database file as the scripts find it.
SchemaInit ==
    /\ db = [i \in Ids |-> NewRow(VenueAt(i), 0)]
    /\ disk = db
    /\ clock = 0
    /\ runs = 0
    /\ GeoIdle
    /\ DedupIdle
    /\ MenuIdle
    /\ UpsertIdle
    /\ ExtractIdle
    /\ RenderIdle
    /\ BuildIdle
    /\ AddressIdle
    /\ RerunIdle
    /\ FetchIdle
    /\ columns \in Tables
    /\ steps_done = {}
    /\ loaded_map = Pending
    /\ loaded_list = Pending

SchemaNext ==
    \/ InitialiseDatabase
    \/ EnsureMenuColumns
    \/ LoadLocationsMap
    \/ LoadLocationsList

SpecSchema == SchemaInit /\ [][SchemaNext]_vars

\* scrape_menus constructs its MenuScraper and calls scrape_website.
FetchInit ==
    /\ db = [i \in Ids |-> NewRow(VenueAt(i), 0)]
    /\ disk = db
    /\ clock = 0
    /\ runs = 0
    /\ GeoIdle
    /\ DedupIdle
    /\ MenuIdle
    /\ UpsertIdle
    /\ ExtractIdle
    /\ RenderIdle
    /\ BuildIdle
    /\ AddressIdle
    /\ RerunIdle
    /\ SchemaIdle
    /\ fpc = "new"
    /\ use_selenium_arg \in BOOLEAN
    /\ selenium_available \in BOOLEAN
    /\ scraper = NoScraper
    /\ furl \in FetchUrls
    /\ fetches = <<>>
    /\ fetched_html = None

FetchNext ==
    \/ \E driver_starts \in BOOLEAN : ScraperInit(driver_starts)
    \/ \E raw1, rendered, raw2 \in FetchOutcomes : ScrapeWebsiteFetch(raw1, rendered, raw2)

SpecFetch == FetchInit /\ [][FetchNext]_vars

\* Lists of records that share keys and differ in score.
RerunInputs == [1..2 -> QualityRecords] \cup SeqsUpTo(ListRecords, MaxRecords)

\* generate_map has loaded the records; deduplicate_records is called on
\* them and then on its result.
RerunInit ==
    /\ db = [i \in Ids |-> NewRow(VenueAt(i), 0)]
    /\ disk = db
    /\ clock = 0
    /\ runs = 0
    /\ GeoIdle
    /\ MenuIdle
    /\ records \in RerunInputs
    /\ unique = <<>>
    /\ pos = 1
    /\ output = <<>>
    /\ OtherIdle

RerunNext ==
    \/ DedupStep
    \/ DedupReturn
    \/ DedupRerun

SpecRerun == RerunInit /\ [][RerunNext]_vars

\* geocode_records reads the address of a row and calls normalise_address.
AddressInit ==
    /\ db = [i \in Ids |-> NewRow(VenueAt(i), 0)]
    /\ disk = db
    /\ clock = 0
    /\ runs = 0
    /\ GeoIdle
    /\ DedupIdle
    /\ MenuIdle
    /\ UpsertIdle
    /\ ExtractIdle
    /\ RenderIdle
    /\ BuildIdle
    /\ given_address \in AddressInputs
    /\ cleaned = NotCalled
    /\ RerunIdle
    /\ FetchIdle
    /\ SchemaIdle

AddressNext == NormaliseAddress

SpecAddress == AddressInit /\ [][AddressNext]_vars

-----------------------------------------------------------------------------
(* Claims about geocode_records, checked under SpecGeo *)

Failed(call) == call[2] \in {"raise", "none"}

AllFailed(log) == \A i \in DOMAIN log : Failed(log[i])

\* The attempts of the row in progress follow the chain: the i-th attempt is
\* the i-th provider, every attempt but the last failed, and the inner loop
\* ends only on a result or at the end of the chain.
CallsFollowChain ==
    /\ Len(calls) <= Len(geocoders)
    /\ \A i \in DOMAIN calls :
           /\ calls[i][1] = geocoders[i]
           /\ i < Len(calls) => Failed(calls[i])
    /\ pc = "try" => AllFailed(calls) /\ gi = Len(calls) + 1
    /\ pc = "finish" =>
           /\ calls # <<>>
           /\ Found(location) <=> ~Failed(calls[Len(calls)])
           /\ ~Found(location) => Len(calls) = Len(geocoders)

\* C1: for every attempted venue the providers are called strictly in the
\* configured order, provider i exactly when all providers before it raised
\* or returned nothing, none after the first that returned a result, and the
\* provider stored for the venue is that first succeeding provider.
C1_ProviderOrder ==
    [][/\ pc' \in {"try", "finish"} => CallsFollowChain'
       /\ (pc = "finish" /\ Found(location) /\ pc' = "row") =>
              /\ db'[idx].geocode_provider = <<calls[Len(calls)][1]>>
              /\ db'[idx].latitude = {location.latitude}
              /\ db'[idx].longitude = {location.longitude}]_vars

\* Chain [nominatim, google], nominatim raised, google answered: google is
\* the stored provider.
C1_Witness ==
    /\ pc = "row"
    /\ idx > 1
    /\ geocoders = <<"nominatim", "google">>
    /\ calls = << <<"nominatim", "raise">>, <<"google", "location">> >>
    /\ (idx - 1) \in updated
    /\ db[idx - 1].geocode_provider = <<"google">>

\* C2: one delay is slept after every provider attempt, whatever its outcome:
\* the sleeps of a venue equal its provider calls.
C2_OneDelayPerAttempt == sleeps = Len(calls)

\* Chain [nominatim, google], nominatim raised, google answered: two delays.
C2_Witness ==
    /\ pc = "finish"
    /\ calls = << <<"nominatim", "raise">>, <<"google", "location">> >>
    /\ sleeps = 2

\* C3: a run without force makes no provider call for a row whose latitude
\* and longitude are both stored, and leaves that row as it is, in the
\* connection and on disk.
C3_ResolvedRowsUntouched ==
    [][\A r \in Ids :
          (GeoRunning /\ ~force /\ HasCoords(db[r])) =>
              /\ db'[r] = db[r]
              /\ disk[r] = db[r] => disk'[r] = disk[r]
              /\ ~(idx = r /\ Len(calls') > Len(calls))]_vars

\* A second run without force is over its loop, and a row resolved by the
\* first run still carries the first run's values.
C3_Witness ==
    /\ runs = 2
    /\ ~force
    /\ pc = "row"
    /\ idx > NumRows
    /\ updated # {}
    /\ \E r \in Ids : HasCoords(db[r]) /\ db[r].last_updated = 1

\* C4: each executed update is committed before the next venue is looked at:
\* whenever the loop is at the head of an iteration, the rows this run has
\* updated are on disk.
C4_CommittedBeforeNextVenue ==
    (pc = "row" /\ idx <= NumRows) => \A r \in updated : disk[r] = db[r]

\* C5: when every provider of the chain failed for a venue, its row is not
\* modified, the query is appended to the failures, and the loop goes on with
\* the next venue.
C5_AllFailedLeavesRow ==
    [][(pc = "finish" /\ AllFailed(calls) /\ pc' # "idle") =>
          /\ db' = db
          /\ disk' = disk
          /\ failures' = Append(failures, search_text)
          /\ search_text # <<>>
          /\ idx' = idx + 1
          /\ pc' = "row"]_vars

\* Under force, every provider failed for a row resolved earlier: the row
\* keeps its coordinates and the loop has moved on.
C5_Witness ==
    /\ pc = "row"
    /\ force
    /\ idx > 1
    /\ calls # <<>>
    /\ AllFailed(calls)
    /\ failures # <<>>
    /\ (idx - 1) \notin updated
    /\ HasCoords(db[idx - 1])
    /\ db[idx - 1].last_updated < clock

-----------------------------------------------------------------------------
(* Claims about dedupe_key and deduplicate_records, checked under SpecDedup *)

\* The entry of `unique` that holds the group of the record at position p.
EntryOf(p) == Lookup(unique, dedupe_key(records[p]))

\* deduplicate_records has returned for an input of exactly two records.
PairDone == DedupDone /\ Len(records) = 2

\* C6: a record with a non-empty branch and a record with a null or empty
\* branch never get the same key, whatever their other fields are, and are
\* never collapsed into one group.
C6_BranchNeverCollapses ==
    DedupDone =>
        \A i, j \in DOMAIN records :
            (Truthy(records[i].branch) /\ ~Truthy(records[j].branch)) =>
                /\ dedupe_key(records[i]) # dedupe_key(records[j])
                /\ EntryOf(i) # 0
                /\ EntryOf(j) # 0
                /\ EntryOf(i) # EntryOf(j)
                /\ Len(output) >= 2

\* Same brand, address, phone and coordinates, one record with a branch and
\* one with branch None: both are in the output.
C6_Witness ==
    /\ PairDone
    /\ records[1].branch = <<"X">>
    /\ records[2].branch = None
    /\ records[1].brand = records[2].brand
    /\ records[1].address = records[2].address
    /\ records[1].address # None
    /\ records[1].phone = records[2].phone
    /\ records[1].latitude = records[2].latitude
    /\ records[1].latitude # {}
    /\ output = records

SameRoundedCoords(a, b) == CoordKey(a) # {} /\ CoordKey(a) = CoordKey(b)

NoBranchSameBrandSameCoords ==
    /\ PairDone
    /\ records[1].brand = records[2].brand
    /\ ~Truthy(records[1].branch)
    /\ ~Truthy(records[2].branch)
    /\ SameRoundedCoords(records[1], records[2])

AddressOf(r) == normalize_text(Either(r.resolved_address, r.address))
PhoneOf(r) == normalize_text(Either(r.resolved_phone, r.phone))

\* C7 as stated: two records with the same brand, no branch and coordinates
\* rounding to the same 6-decimal pair are collapsed into one output record,
\* whatever their addresses and phones are.
C7_AsStated == NoBranchSameBrandSameCoords => Len(output) = 1

\* C7 as amended: such records are collapsed into one output record exactly
\* when their normalised addresses (resolved address, else raw address) are
\* equal and, if neither has an address, their normalised phones (resolved
\* phone, else raw phone) are equal too.
C7_CollapseNeedsSameAddress ==
    NoBranchSameBrandSameCoords =>
        (Len(output) = 1 <=>
            /\ AddressOf(records[1]) = AddressOf(records[2])
            /\ AddressOf(records[1]) = <<>> =>
                   PhoneOf(records[1]) = PhoneOf(records[2]))

\* Coordinates that differ before rounding, addresses that differ in case
\* and spacing only, different phones: one output record.
C7_Witness ==
    /\ NoBranchSameBrandSameCoords
    /\ records[1].latitude # records[2].latitude
    /\ records[1].address # records[2].address
    /\ records[1].address # None
    /\ records[2].address # None
    /\ records[1].resolved_address = None
    /\ records[2].resolved_address = None
    /\ records[1].phone # records[2].phone
    /\ Len(output) = 1

\* Two records of one key, exactly one of them with a map URL.
OneHasMapsUrl ==
    /\ PairDone
    /\ dedupe_key(records[1]) = dedupe_key(records[2])
    /\ Truthy(records[1].maps_url) # Truthy(records[2].maps_url)

WithMapsUrl == IF Truthy(records[1].maps_url) THEN 1 ELSE 2
WithoutMapsUrl == 3 - WithMapsUrl

\* C8 as stated: of two records with the same key the one with the map URL
\* is retained, in both orders and whatever the other record's scored fields.
C8_AsStated ==
    OneHasMapsUrl => (Len(unique) = 1 /\ unique[1].at = WithMapsUrl)

HasAllResolved(r) ==
    /\ Truthy(r.resolved_address)
    /\ Truthy(r.resolved_phone)
    /\ Truthy(r.resolved_website)

\* C8 as amended: the record with the map URL is retained, in both orders,
\* whenever the other record lacks a resolved address, a resolved phone or a
\* resolved website, or the record with the map URL has one of the three.
C8_MapsUrlWinsOverPartial ==
    (/\ OneHasMapsUrl
     /\ \/ ~HasAllResolved(records[WithoutMapsUrl])
        \/ Truthy(records[WithMapsUrl].resolved_address)
        \/ Truthy(records[WithMapsUrl].resolved_phone)
        \/ Truthy(records[WithMapsUrl].resolved_website))
    => (/\ Len(unique) = 1
        /\ unique[1].at = WithMapsUrl
        /\ output = <<records[WithMapsUrl]>>)

\* The record with the map URL comes second and has nothing else; the first
\* has a resolved address, a resolved phone, extra info and the google
\* provider: the second is retained.
C8_Witness ==
    /\ OneHasMapsUrl
    /\ WithMapsUrl = 2
    /\ record_quality_without_maps(records[2]) = 0
    /\ Truthy(records[1].resolved_address)
    /\ Truthy(records[1].resolved_phone)
    /\ Truthy(records[1].extra_info)
    /\ records[1].geocode_provider = Google
    /\ output = <<records[2]>>

\* The positions of the input whose record has the key of entry e.
Group(e) == {p \in DOMAIN records : dedupe_key(records[p]) = unique[e].key}

BestOf(G) ==
    {p \in G : \A q \in G : record_quality(records[q]) <= record_quality(records[p])}

Least(S) == CHOOSE p \in S : \A q \in S : p <= q

\* C9: for every key of the input the retained record is the earliest of the
\* key's records with the maximal score, and the output lists the retained
\* records in the order in which their keys first appear in the input.
C9_FirstBestInKeyOrder ==
    DedupDone =>
        /\ \A p \in DOMAIN records : EntryOf(p) # 0
        /\ \A e \in DOMAIN unique :
               /\ Group(e) # {}
               /\ unique[e].at = Least(BestOf(Group(e)))
        /\ \A e, f \in DOMAIN unique :
               e < f => Least(Group(e)) < Least(Group(f))
        /\ Len(output) = Len(unique)
        /\ \A e \in DOMAIN unique : output[e] = records[unique[e].at]

\* Three records: the second has a new key, the third has the key of the
\* first and a higher score; the third takes the first place of the output.
C9_Witness ==
    /\ DedupDone
    /\ Len(records) = 3
    /\ Len(unique) = 2
    /\ unique[1].at = 3
    /\ unique[2].at = 2
    /\ record_quality(records[2]) = record_quality(records[3])
    /\ records[1] # records[3]

-----------------------------------------------------------------------------
(* Claims about scrape_menus, checked under SpecMenu *)

MenuRow == db[mrows[midx]]

\* The extractions tried for the row in progress: the website first and only
\* for a row with a website, the map listing only after that, only for a row
\* with a map URL, and only when the website gave nothing.
AttemptsInOrder ==
    /\ attempts \in {<<>>} \cup
           { << <<"website", k>> >> : k \in {"none", "menu"} } \cup
           { << <<"google_maps", k>> >> : k \in {"none", "menu"} } \cup
           { << <<"website", "none">>, <<"google_maps", k>> >> : k \in {"none", "menu"} }
    /\ (attempts # <<>> /\ attempts[1][1] = "website") <=> Truthy(MenuRow.website)
    /\ (attempts # <<>> /\ attempts[Len(attempts)][1] = "google_maps") =>
           Truthy(MenuRow.geocode_maps_url)
    /\ mpc \in {"store", "commit"} =>
           /\ Found(menu_data) <=>
                  (attempts # <<>> /\ attempts[Len(attempts)][2] = "menu")
           /\ Found(menu_data) =>
                  /\ source = <<attempts[Len(attempts)][1]>>
                  /\ menu_data.source = attempts[Len(attempts)][1]

\* C10: for every processed venue the website extraction comes before the
\* map-listing extraction, the map-listing extraction is made only if the
\* website attempt was absent or returned nothing, and a stored menu carries
\* as menu_source the source whose attempt produced the stored document.
C10_WebsiteFirstThenMaps ==
    [][/\ mpc' \in {"maps", "store", "commit"} => AttemptsInOrder'
       /\ (mpc = "store" /\ mpc' = "commit" /\ Found(menu_data)) =>
              /\ db'[mrows[midx]].menu_source = <<attempts[Len(attempts)][1]>>
              /\ db'[mrows[midx]].menu_data = Dumps(menu_data)
              /\ menu_data.source = attempts[Len(attempts)][1]]_vars

\* The website returned nothing, the map listing a menu: google_maps is
\* stored.
C10_Witness ==
    /\ mpc = "commit"
    /\ attempts = << <<"website", "none">>, <<"google_maps", "menu">> >>
    /\ MenuRow.menu_source = <<"google_maps">>
    /\ MenuRow.menu_data = Dumps(MenuDoc("google_maps", MenuRow.geocode_maps_url))

-----------------------------------------------------------------------------
(* Claims about extract_menu_generic, checked under SpecExtract *)

\* The entries a document holds under a key; none when it has no such key.
Listed(d, key) == IF key \in DOMAIN d THEN d[key] ELSE <<>>

HasContent(d) ==
    \/ Listed(d, "items") # <<>>
    \/ \E i \in DOMAIN Listed(d, "sections") :
           Listed(Listed(d, "sections")[i], "items") # <<>>
    \/ Listed(d, "pdf_menus") # <<>>
    \/ Listed(d, "image_menus") # <<>>

\* C11: extract_menu_generic returns a document only if the document has at
\* least one item, one section with items, one PDF link or one image link; a
\* page with embedded structured data but no items and no links gives None.
C11_DocumentOnlyWithContent ==
    extracted.kind = "menu" => HasContent(extracted)

\* C12: a page with a PDF menu link (or a menu image) gives a document that
\* lists the link in pdf_menus (or image_menus), with and without items.
C12_LinksAlwaysDiscovered ==
    (extracted # Pending /\ extracted.kind # "raise") =>
        /\ page.pdf_links # <<>> =>
               /\ extracted.kind = "menu"
               /\ \A i \in DOMAIN page.pdf_links :
                      \E j \in DOMAIN Listed(extracted, "pdf_menus") :
                          Listed(extracted, "pdf_menus")[j] = page.pdf_links[i]
        /\ page.image_links # <<>> =>
               /\ extracted.kind = "menu"
               /\ \A i \in DOMAIN page.image_links :
                      \E j \in DOMAIN Listed(extracted, "image_menus") :
                          Listed(extracted, "image_menus")[j] = page.image_links[i]

-----------------------------------------------------------------------------
(* Claims about interrupted and resumed runs of scrape_menus, checked under  *)
(* SpecMenu                                                                  *)

\* C13: when an interrupt ends the loop, every update the run has executed is
\* committed before the function exits: what the connection held is durable.
C13_InterruptFlushes ==
    [][(MenuRunning /\ mpc' = "idle" /\ mexit' = "interrupt") => disk' = db]_vars

Range(f) == {f[i] : i \in DOMAIN f}

\* C14: a run without force makes no extraction for, and leaves unchanged the
\* row of, a venue that holds menu data; it selects only venues without menu
\* data, and each venue's update is committed before the next venue begins.
C14_ResumeSkipsExtracted ==
    [][/\ (mpc = "idle" /\ mpc' = "row" /\ ~mforce') =>
              \A r \in Ids : r \in Range(mrows') => ~Truthy(db[r].menu_data)
       /\ (MenuRunning /\ ~mforce) =>
              /\ \A r \in Ids :
                     Truthy(disk[r].menu_data) =>
                         /\ db'[r] = db[r]
                         /\ disk'[r] = disk[r]
              /\ attempts' # attempts => ~Truthy(db[mrows[midx]].menu_data)
       /\ (MenuRunning' /\ mpc' = "row") => disk' = db']_vars

\* A second run, without force: a venue of the first run holds its menu, and
\* the second run has updated another venue.
C14_Witness ==
    /\ runs = 2
    /\ ~mforce
    /\ mpc = "commit"
    /\ \E r \in Ids : r # mrows[midx] /\ Truthy(disk[r].menu_data)

-----------------------------------------------------------------------------
(* Claims about upsert_locations, checked under SpecUpsert *)

TupleOf(row) == <<row.brand, row.branch, row.address>>

\* C15: after any sequence of upsert_locations calls no two rows of the store
\* have the same (brand, branch, address), and the store has one row for
\* each distinct tuple ever ingested.
C15_OneRowPerTuple ==
    /\ \A i, j \in DOMAIN db : TupleOf(db[i]) = TupleOf(db[j]) => i = j
    /\ {TupleOf(db[i]) : i \in DOMAIN db} = ingested
    /\ Len(db) = Cardinality(ingested)

\* Two calls: the second ingested again the tuple of the first row, whose row
\* was updated in place, next to a row with the branch named "null".
C15_Witness ==
    /\ upos = 0
    /\ runs = 2
    /\ Len(db) = 2
    /\ db[1].branch = None
    /\ db[2].branch = JsonNull
    /\ db[1].address = db[2].address
    /\ db[1].last_updated = 2
    /\ db[2].last_updated = 1
    /\ disk = db

-----------------------------------------------------------------------------
(* Claims about the delay of geocode_records, checked under SpecGeo *)

HasNominatim(chain) == \E i \in DOMAIN chain : chain[i] = "nominatim"

-----------------------------------------------------------------------------
(* Claims about build_popup and build_row_html, checked under SpecRender *)

IsText(j) == j.t = "string"

\* A list of objects whose fields named in keys, when present, are strings.
ListOfObjects(j, keys) ==
    /\ j.t = "array"
    /\ \A i \in DOMAIN j.a :
           /\ j.a[i].t = "object"
           /\ \A k \in keys \cap DOMAIN j.a[i].o : IsText(j.a[i].o[k])

\* The stored value is a menu document of the expected shape.
WellFormedMenu(j) ==
    /\ j.t = "object"
    /\ "sections" \in DOMAIN j.o =>
           /\ ListOfObjects(j.o.sections, {"name"})
           /\ \A i \in DOMAIN j.o.sections.a :
                  "items" \in DOMAIN j.o.sections.a[i].o =>
                      ListOfObjects(j.o.sections.a[i].o.items, {"name", "price"})
    /\ "pdf_menus" \in DOMAIN j.o => ListOfObjects(j.o.pdf_menus, {"url", "text"})

RendersWithoutMenu(result, stored) ==
    result # Pending =>
        /\ result.kind = "html"
        /\ ~WellFormedMenu(stored) => result.menu = "none"

\* C17: for every stored menu_data value build_popup and build_row_html
\* return HTML without raising, and a value that is not a menu document of
\* the expected shape is rendered as no menu.
C17_RenderingNeverFails ==
    /\ RendersWithoutMenu(popup, shown)
    /\ RendersWithoutMenu(row_html, shown)

-----------------------------------------------------------------------------
(* Claims about build_geocoders, checked under SpecBuild *)

\* The requested name at position i is a supported provider that is fully
\* configured: geopy imported for its providers, an API key for google.
Configured(i) ==
    LET key == GeocoderKey(names[i])
    IN  /\ key \in SUPPORTED_GEOCODERS
        /\ key = KeyGoogle => (google_api_key # None /\ google_api_key # <<>>)
        /\ key # KeyGoogle => geopy

\* C18: build_geocoders returns exactly the requested providers that are
\* supported and fully configured, in the requested order: the chain is the
\* requested names at the configured positions, in increasing position.
C18_ChainIsConfiguredRequests ==
    (bi = 0 /\ names # <<>>) =>
        \E at \in [DOMAIN built -> DOMAIN names] :
            /\ \A j, k \in DOMAIN built : j < k => at[j] < at[k]
            /\ {at[j] : j \in DOMAIN built} = {i \in DOMAIN names : Configured(i)}
            /\ \A j \in DOMAIN built : built[j] = GeocoderKey(names[at[j]])

\* bing, Google without an API key, nominatim: the chain is nominatim alone.
C18_Witness ==
    /\ bi = 0
    /\ names = <<<<"b", "i", "n", "g">>, <<" ", "G", "o", "o", "g", "l", "e">>,
                 KeyNominatim>>
    /\ google_api_key = None
    /\ built = <<KeyNominatim>>

-----------------------------------------------------------------------------
(* Claims about the venues scrape_menus passes over, checked under SpecMenu *)

NoUrls(row) == ~Truthy(row.website) /\ ~Truthy(row.geocode_maps_url)

\* C19: a venue with no website and no map URL is never among the rows a run
\* of scrape_menus processes, with or without force: no extraction is made
\* for it and no field of its row, menu_last_scraped included, changes.
C19_VenueWithoutUrlsSkipped ==
    [][\A r \in Ids :
           NoUrls(db[r]) =>
               /\ db'[r] = db[r]
               /\ disk'[r] = disk[r]
               /\ r \notin Range(mrows')
               /\ (attempts' # attempts /\ attempts' # <<>>) => mrows[midx] # r]_vars

\* A forced run has returned: it stamped a venue with a website and left the
\* venue without website and map URL as it was.
C19_Witness ==
    /\ mpc = "idle"
    /\ mexit = "return"
    /\ mforce
    /\ runs > 0
    /\ \E r \in Ids : NoUrls(db[r]) /\ db[r].menu_last_scraped = {}
    /\ \E q \in Ids : db[q].menu_last_scraped # {} /\ disk[q] = db[q]

\* C20: a run of scrape_menus that no interrupt ends attempts every selected
\* venue exactly once, whatever the extractions of the venues before it gave:
\* the run ends only past the last selected row, each row visited in turn.
C20_EveryVenueAttempted ==
    [][/\ (MenuRunning /\ mpc' = "idle" /\ mexit' # "interrupt") =>
              midx > Len(mrows)
       /\ (MenuRunning /\ MenuRunning') => midx' \in {midx, midx + 1}
       /\ (mpc = "idle" /\ mpc' = "row") =>
              /\ midx' = 1
              /\ \A j, k \in DOMAIN mrows' : j # k => mrows'[j] # mrows'[k]]_vars

-----------------------------------------------------------------------------
(* Claims about the table under all its writers, checked under SpecStore *)

BothOrNeither(row) == (row.latitude = {}) <=> (row.longitude = {})

\* C21: in every state of the store that upsert_locations and geocode_records
\* reach, in the connection and on disk, each row has its latitude and its
\* longitude both present or both absent.
C21_CoordinatesTogether ==
    /\ \A i \in DOMAIN db : BothOrNeither(db[i])
    /\ \A i \in DOMAIN disk : BothOrNeither(disk[i])

\* A venue resolved by a geocoding run was ingested again by a later run: it
\* has both coordinates beside a row that has neither.
C21_Witness ==
    /\ upos = 0
    /\ runs = 2
    /\ \E i \in DOMAIN disk :
           /\ HasCoords(disk[i])
           /\ disk[i].geocode_provider # None
           /\ disk[i].last_updated = 2
           /\ disk[i].website = NewLink
    /\ \E j \in DOMAIN disk : disk[j].latitude = {} /\ disk[j].longitude = {}

-----------------------------------------------------------------------------
(* Claims about normalise_address, checked under SpecAddress *)

\* Punctuation characters of an address.
Punctuation == {",", ";", ".", "-", "/", ":", "="}

NoWhitespaceRun(text) ==
    \A i \in 1..(Len(text) - 1) :
        ~(text[i] \in Whitespace /\ text[i + 1] \in Whitespace)

\* C22: normalise_address returns None for a None or empty argument, and
\* otherwise None or a non-empty text without a run of more than one
\* whitespace character that neither begins nor ends with whitespace or
\* with a punctuation character.
C22_CleanTextOrNone ==
    cleaned # NotCalled =>
        /\ ~Truthy(given_address) => cleaned = None
        /\ cleaned # None =>
               /\ cleaned # <<>>
               /\ NoWhitespaceRun(cleaned)
               /\ cleaned[1] \notin Whitespace \cup Punctuation
               /\ cleaned[Len(cleaned)] \notin Whitespace \cup Punctuation

-----------------------------------------------------------------------------
(* Claims about deduplicate_records run again, checked under SpecRerun *)

\* The keys of the records of a list.
KeysOf(recs) == {dedupe_key(recs[i]) : i \in DOMAIN recs}

\* The positions in recs of the records of out, when they rise strictly:
\* out is then recs with some records left out.
IsSubsequence(out, recs) ==
    \E f \in [DOMAIN out -> DOMAIN recs] :
        /\ \A i \in DOMAIN out : recs[f[i]] = out[i]
        /\ \A i, j \in DOMAIN out : i < j => f[i] < f[j]

\* The position at which a key first occurs in recs.
FirstAt(recs, key) ==
    CHOOSE i \in DOMAIN recs :
        /\ dedupe_key(recs[i]) = key
        /\ \A j \in 1..(i - 1) : dedupe_key(recs[j]) # key

OnePerKey(out, recs) ==
    /\ \A i \in DOMAIN out : \E j \in DOMAIN recs : recs[j] = out[i]
    /\ KeysOf(out) = KeysOf(recs)
    /\ \A i, j \in DOMAIN out : i # j => dedupe_key(out[i]) # dedupe_key(out[j])

\* C23 as stated, the output read as a sub-list that keeps the order of R:
\* applying deduplicate_records to its result returns that result, the
\* result is R with records left out, one record per distinct key of R, and
\* R is not modified.
C23_AsStated ==
    [][/\ records' = records
       /\ (DedupDone' /\ ~DedupDone) =>
              /\ IsSubsequence(output', records)
              /\ OnePerKey(output', records)
       /\ again'.done => again'.out = output']_vars

\* C23, amended: applying deduplicate_records to its result returns that
\* result; the result holds records of R, exactly one per distinct key of R,
\* in the order in which the keys first occur in R; R is not modified.
C23_RerunReturnsSame ==
    [][/\ records' = records
       /\ (DedupDone' /\ ~DedupDone) =>
              /\ OnePerKey(output', records)
              /\ \A i, j \in DOMAIN output' :
                     i < j => FirstAt(records, dedupe_key(output'[i]))
                                < FirstAt(records, dedupe_key(output'[j]))
       /\ again'.done => again'.out = output'
       /\ again'.done => output' = output]_vars

\* Three records of two keys, the third better than the first of its key:
\* the result holds the third before the second, and the call on the result
\* has returned it again.
C23_Witness ==
    /\ again.done
    /\ Len(records) = 3
    /\ Len(output) = 2
    /\ output = <<records[3], records[2]>>
    /\ records[3] # records[1]
    /\ again.out = output

-----------------------------------------------------------------------------
(* Claims about the sources of scrape_menus, checked under SpecMenu *)

\* The extractions of the row from the website and from the map listing
\* have all raised or returned nothing.
WebsiteAndMapsFailed ==
    \A i \in DOMAIN attempts :
        attempts[i][1] \in {"website", "google_maps"} => attempts[i][2] # "menu"

PlacesAttempted == \E i \in DOMAIN attempts : attempts[i][1] = "google_places"

\* C24: when the website extraction and the map-listing extraction of a
\* venue have both failed or returned nothing, a places-API lookup has been
\* attempted by the time the row is updated, and a result of it is stored
\* with menu_source google_places.
C24_PlacesLookupThird ==
    [][(mpc = "store" /\ mpc' = "commit" /\ WebsiteAndMapsFailed) =>
          /\ PlacesAttempted
          /\ Found(menu_data) =>
                 db'[mrows[midx]].menu_source = <<"google_places">>]_vars

-----------------------------------------------------------------------------
(* Claims about the strategies of extract_menu_generic, under SpecExtract *)

\* The items the item-card scan and the price-line scan give for the page.
CardItems == StructuralItems(page.elements)
LineItems == ExtractFromText(page.lines)

AllIn(list, of) == \A i \in DOMAIN list : \E j \in DOMAIN of : of[j] = list[i]

\* C25: in a returned document the items are those of the item-card scan
\* when it produced any, and those of the price-line scan otherwise, never
\* items of both; the structured data and the categories are those of the
\* page whichever scan gave the items, and a page that gives no document has
\* neither items nor structured data.
C25_FirstItemStrategyWins ==
    /\ extracted.kind = "menu" =>
           /\ CardItems # <<>> => extracted.items = CardItems
           /\ CardItems = <<>> => extracted.items = LineItems
           /\ AllIn(extracted.items, CardItems) \/ AllIn(extracted.items, LineItems)
           /\ extracted.structured_data = StructuredData(page.scripts, NoResult)
           /\ extracted.categories = page.headings
    /\ extracted = NoResult =>
           /\ CardItems = <<>>
           /\ LineItems = <<>>
           /\ ~Found(StructuredData(page.scripts, NoResult))

\* A page with an item card, a priced text line, a Restaurant JSON-LD script
\* and a section heading: the document holds the card's item alone, with the
\* structured data and the category.
C25_Witness ==
    /\ extracted.kind = "menu"
    /\ CardItems # <<>>
    /\ LineItems # <<>>
    /\ extracted.items = CardItems
    /\ Found(extracted.structured_data)
    /\ extracted.categories # <<>>

-----------------------------------------------------------------------------
(* Claims about the fetches of scrape_website, checked under SpecFetch *)

Rendering == scraper.use_selenium /\ scraper.driver

\* C26: with rendering enabled and available the first fetch of the venue
\* URL is the rendering one and a raw HTTP fetch follows only a rendering
\* fetch that failed; without rendering every fetch is a raw HTTP fetch.
C26_RenderingBeforeRaw ==
    (fpc = "done" /\ fetches # <<>>) =>
        /\ Rendering =>
               /\ fetches[1][1] = "selenium"
               /\ \A i \in DOMAIN fetches :
                      fetches[i][1] = "requests" =>
                          /\ i > 1
                          /\ fetches[i - 1] = <<"selenium", None>>
        /\ ~Rendering =>
               \A i \in DOMAIN fetches : fetches[i][1] = "requests"

\* What geocode_records and scrape_menus have stored in a row.
Enrichment(row) ==
    <<row.latitude, row.longitude, row.geocode_provider, row.resolved_address,
      row.resolved_phone, row.resolved_website, row.geocode_place_id,
      row.geocode_maps_url, row.menu_data, row.menu_source,
      row.menu_last_scraped>>

\* C27: when upsert_locations stores a record whose (brand, branch, address)
\* a row already holds, the row keeps its coordinates, its provider, its
\* resolved_* fields, its place id, its map URL and its menu fields; its raw
\* fields, raw_payload and last_updated become the record's; no other row
\* changes.
C27_ReingestKeepsEnrichment ==
    [][(upos \in DOMAIN incoming /\ upos' = upos + 1
            /\ Conflicts(db, UniqueKey(incoming[upos])) # {}) =>
          /\ DOMAIN db' = DOMAIN db
          /\ \A i \in DOMAIN db :
                 IF i \in Conflicts(db, UniqueKey(incoming[upos]))
                 THEN /\ Enrichment(db'[i]) = Enrichment(db[i])
                      /\ db'[i].unique_key = db[i].unique_key
                      /\ db'[i].website = incoming[upos].website
                      /\ db'[i].raw_payload = Payload(incoming[upos])
                      /\ db'[i].last_updated = clock
                 ELSE db'[i] = db[i]]_vars

\* The first venue, resolved by google in one run, was ingested again with
\* a new link: the row has the new link and still its coordinates, resolved
\* address, place id and map URL.
C27_Witness ==
    /\ upos > Len(incoming)
    /\ incoming # <<>>
    /\ db[1].website = NewLink
    /\ db[1].raw_payload = Payload([VenueAt(1) EXCEPT !.website = NewLink])
    /\ db[1].last_updated = clock
    /\ HasCoords(db[1])
    /\ db[1].geocode_provider = <<"google">>
    /\ db[1].resolved_address = <<"g">>
    /\ db[1].geocode_place_id = <<"p">>
    /\ db[1].geocode_maps_url = <<"m">>

-----------------------------------------------------------------------------
(* Claims about the menu columns under scrape_menus, checked under SpecMenu *)

IsPrefix(p, q) == Len(p) <= Len(q) /\ SubSeq(q, 1, Len(p)) = p

\* C28: the update of a venue for which every attempt returned nothing
\* changes menu_last_scraped of its row and nothing else in the table, so a
\* stored menu and its source survive a failed re-scrape under force; a row
\* without a menu is still without one and still meets the query of a run
\* without force, whose rows are the rows meeting it, up to the limit.
C28_MissOnlyStampsAttempt ==
    [][/\ (mpc = "store" /\ mpc' = "commit" /\ ~Found(menu_data)) =>
              /\ db' = [db EXCEPT ![mrows[midx]].menu_last_scraped = {clock}]
              /\ ~Truthy(db[mrows[midx]].menu_data) =>
                     Selected(db'[mrows[midx]], FALSE)
       /\ (mpc = "idle" /\ mpc' = "row" /\ ~mforce') =>
              /\ IsPrefix(mrows', SelectedIds(db, FALSE, 1))
              /\ mrows' = <<>> => SelectedIds(db, FALSE, 1) = <<>>]_vars

\* A second run, without force, is at a venue for which the first run
\* found nothing: the row has the stamp of the first run and no menu.
C28_Witness ==
    /\ runs = 2
    /\ ~mforce
    /\ mpc = "row"
    /\ midx <= Len(mrows)
    /\ db[mrows[midx]].menu_last_scraped = {1}
    /\ ~Truthy(db[mrows[midx]].menu_data)
    /\ db[mrows[midx]].menu_source = None

MenuFieldsAgree(row) ==
    /\ Truthy(row.menu_data) <=> row.menu_source # None
    /\ row.menu_source \in {None, <<"website">>, <<"google_maps">>}
    /\ Truthy(row.menu_data) => row.menu_last_scraped # {}

\* C29: from a store with no menu field set, after any runs of scrape_menus
\* every row, in the connection and on disk, has menu_data exactly when it
\* has menu_source, a menu_source of website or google_maps, and
\* menu_last_scraped whenever it has menu_data.
C29_MenuFieldsAgree ==
    /\ \A i \in DOMAIN db : MenuFieldsAgree(db[i])
    /\ \A i \in DOMAIN disk : MenuFieldsAgree(disk[i])

\* After two runs one row holds a menu from the map listing and another has
\* been attempted without result.
C29_Witness ==
    /\ runs = 2
    /\ mpc = "idle"
    /\ \E i \in DOMAIN disk :
           /\ disk[i].menu_source = <<"google_maps">>
           /\ Truthy(disk[i].menu_data)
           /\ disk[i].menu_last_scraped # {}
    /\ \E j \in DOMAIN disk :
           /\ disk[j].menu_last_scraped # {}
           /\ ~Truthy(disk[j].menu_data)
           /\ disk[j].menu_source = None

-----------------------------------------------------------------------------
(* Claims about the columns read and written, checked under SpecSchema *)

ReadsMenuFields(result) ==
    /\ result.kind = "rows"
    /\ {"menu_data", "menu_source", MenuStampColumn} \subseteq result.read

\* C30: once initialise_database and ensure_menu_columns have run, every
\* column load_locations selects exists, in generate_map and in
\* generate_google_list, so both return the rows, and the columns they read
\* include menu_data, menu_source and the column in which scrape_menus
\* records the time it stored the menu.
C30_RenderersReadWhatIsWritten ==
    steps_done = {"initialise", "menu"} =>
        /\ MapSelected \subseteq columns
        /\ ListSelected \subseteq columns
        /\ loaded_map # Pending => ReadsMenuFields(loaded_map)
        /\ loaded_list # Pending => ReadsMenuFields(loaded_list)

=============================================================================
